---- MODULE Spec2Model ----
(***************************************************************************)
(* Forecasting / supply-planning core of Clinical-Supply-Agent.           *)
(*                                                                         *)
(* Numbers.  Subject counts and product quantities are Python floats in    *)
(* the source.  They are modelled as exact integers counting eighths       *)
(* (Unit), and every input set below holds dyadic values only, so that     *)
(* the float arithmetic of the source is exact on them and the integer     *)
(* arithmetic here computes the same values.                               *)
(* Series are functions over 0 .. horizon-1, indexed as in the source.     *)
(* Dates are day numbers.                                                  *)
(***************************************************************************)
EXTENDS Integers, Sequences, FiniteSets, TLC

VARIABLES
    payload,          \* the configuration document of the run
    now,              \* wall clock, in ticks (TicksPerDay ticks a day)
    pc,               \* position of the running call
    horizon,          \* cohort_enrollment: number of buckets
    bucket_dates,     \* cohort_enrollment: bucket start dates
    effective_rate,   \* cohort_enrollment: global_rate * (1 - screen_fail)
    stagger_buckets,  \* cohort_enrollment: stagger gap in buckets
    next_cohort,      \* cohort_enrollment: index of the next cohort of the for loop
    current_bucket,   \* cohort_enrollment: bucket where the next cohort may start
    per_cohort,       \* cohort_enrollment: cohort_id -> series
    total,            \* cohort_enrollment: sum over cohorts per bucket
    results,          \* what the calls of run_forecast returned, in call order
    forecast_output,  \* generate_supply_plan: the forecast it plans for
    inventory,        \* generate_supply_plan: the inventory snapshot
    params,           \* generate_supply_plan: depot_ss_days, site_ss_days, overage, bucket_step
    product_demand,   \* generate_supply_plan: overage-adjusted demand, in SKU order
    starting_inv,     \* generate_supply_plan: SKU -> starting quantity
    sku_index,        \* generate_supply_plan: position of the loop over the SKUs
    bucket_index,     \* generate_supply_plan: position of the loop over the buckets
    on_hand,          \* generate_supply_plan: running on-hand of the current SKU
    stockout_detected,
    projected,        \* generate_supply_plan: projection of the current SKU so far
    projected_inventory,
    reorder_points,
    planned_shipments,
    stockout_alerts,
    safety_stock_summary,
    args,             \* arguments of a direct call, or of the call of each thread
    ret,              \* what the direct call returned
    current_thread,   \* the thread whose call the variables above belong to
    parked,           \* thread -> the variables of its call while it does not run
    preempted,        \* the threads that lost the processor in the middle of a call
    shipments,        \* table shipments with the items of each row, in creation order
    lots,             \* table inventory_lots, in creation order
    txns,             \* table inventory_transactions, in commit order
    scenario_versions, \* table scenario_versions, in commit order
    requests          \* request -> the locals of its handler

cohortVars == <<horizon, bucket_dates, effective_rate, stagger_buckets,
                next_cohort, current_bucket, per_cohort, total>>

enrollVars == <<pc, cohortVars>>

planVars == <<forecast_output, inventory, params, product_demand, starting_inv,
              sku_index, bucket_index, on_hand, stockout_detected, projected,
              projected_inventory, reorder_points, planned_shipments,
              stockout_alerts, safety_stock_summary>>

threadVars == <<current_thread, parked, preempted>>

dbVars == <<shipments, lots, txns, scenario_versions, requests>>

callVars == <<args, ret, threadVars, dbVars>>

\* everything but the tables and the requests
serviceVars == <<payload, now, enrollVars, results, planVars, args, ret, threadVars>>

vars == <<payload, now, enrollVars, results, planVars, callVars>>

----------------------------------------------------------------------------
(* Bounds of the model *)

MaxHorizon == 5
MaxCap == 3
MaxCohorts == 2
MaxNow == 2
MaxRuns == 2
MaxPlanHorizon == 4
MaxShipments == 2
MaxRequests == 3

Unit == 2 * 2 * 2
TicksPerDay == 1 + 1

----------------------------------------------------------------------------
(* Scalars of the JSON document: absent/None, a number, a non-numeric      *)
(* string, or a date.                                                      *)

None == [t |-> "none", v |-> 0]
Num(n) == [t |-> "num", v |-> n]
BadStr == [t |-> "str", v |-> 0]
Date(d) == [t |-> "date", v |-> d]

Truthy(s) == s.t \in {"str", "date"} \/ (s.t = "num" /\ s.v # 0)

\* Python's `a or b`
Or(a, b) == IF Truthy(a) THEN a ELSE b

\* int(x) / float(x) raise on None and on a non-numeric string
Converts(s) == s.t = "num"

Min(a, b) == IF a <= b THEN a ELSE b
Max(a, b) == IF a >= b THEN a ELSE b

\* Python's floor division for a positive divisor
FloorDiv(a, b) == IF a >= 0 THEN a \div b ELSE -((-a + b - 1) \div b)

Today == now \div TicksPerDay

Lower(s) ==
    IF s = "WEEK" THEN "week" ELSE IF s = "MONTH" THEN "month" ELSE s

_parse_date(v) == IF v.t = "date" THEN v ELSE None

_norm_bucket(value) ==
    LET b == IF value = "" THEN "week" ELSE Lower(value) IN
    IF b \in {"weekly", "week", "w", "wk", "weeks"} THEN "week"
    ELSE IF b \in {"monthly", "month", "m", "mo", "months"} THEN "month"
    ELSE "week"

_bucket_step_days(bucket) == IF bucket = "week" THEN 7 ELSE 30

StrOr(a, b) == IF a # "" THEN a ELSE b

ZeroSeries(h) == [i \in 0 .. h - 1 |-> 0]

SeriesLen(s) == Cardinality(DOMAIN s)

RECURSIVE PrefixSum(_, _)
PrefixSum(s, i) == IF i < 0 THEN 0 ELSE s[i] + PrefixSum(s, i - 1)

----------------------------------------------------------------------------
(* cohort_enrollment *)

Infinity == [inf |-> TRUE, v |-> 0]
Finite(n) == [inf |-> FALSE, v |-> n]

\* a remaining capacity that forgets what the cohort has enrolled
RemainingOfEmptyCohort(max_p, enrolled_so_far) ==
    IF max_p.inf THEN Infinity ELSE Finite(max_p.v)

\* comparisons and arithmetic against float("inf")
Remaining(max_p, enrolled_so_far) ==
    IF max_p.inf THEN Infinity ELSE Finite(max_p.v - enrolled_so_far)

NonPositive(x) == ~x.inf /\ x.v <= 0

MinWith(rate, remaining) ==
    IF remaining.inf THEN rate ELSE Min(rate, remaining.v)

AtLeast(enrolled_so_far, max_p) == ~max_p.inf /\ enrolled_so_far >= max_p.v

EnrollStep(payload_) ==
    _bucket_step_days(_norm_bucket(
        StrOr(StrOr(payload_.forecast_bucket, payload_.scenario_forecast_bucket), "week")))

EnrollStartDate(payload_) ==
    LET start == _parse_date(Or(payload_.start_date, payload_.scenario_start_date)) IN
    IF start.t = "none" THEN Today ELSE start.v

EnrollHorizonScalar(payload_) ==
    Or(Or(payload_.scenario_horizon_buckets, payload_.horizon_buckets), Num(26))

EnrollHorizon(payload_) ==
    LET end == _parse_date(payload_.end_date) IN
    IF end.t = "none"
    THEN EnrollHorizonScalar(payload_).v
    ELSE Max(1, FloorDiv(end.v - EnrollStartDate(payload_), EnrollStep(payload_)) + 1)

EnrollRateScalar(payload_) ==
    IF payload_.enrollment_waves # <<>>
    THEN Or(payload_.enrollment_waves[1].enrollment_rate_per_bucket, Num(0))
    ELSE Or(payload_.enrollment_rate_per_bucket, Num(0))

EnrollScreenFailScalar(payload_) ==
    IF payload_.enrollment_waves # <<>>
    THEN Or(payload_.enrollment_waves[1].screen_fail_rate, Num(0))
    ELSE Num(0)

EnrollStaggerScalar(payload_) == Or(payload_.cohort_stagger_days, Num(0))

\* the int()/float() conversions of lines 70-94 that raise
EnrollStartRaises(payload_) ==
    \/ _parse_date(payload_.end_date).t = "none" /\ ~Converts(EnrollHorizonScalar(payload_))
    \/ ~Converts(EnrollRateScalar(payload_))
    \/ ~Converts(EnrollScreenFailScalar(payload_))
    \/ ~Converts(EnrollStaggerScalar(payload_))

EffectiveRate(payload_) ==
    (EnrollRateScalar(payload_).v * (Unit - EnrollScreenFailScalar(payload_).v)) \div Unit

StaggerBuckets(payload_) ==
    Max(0, FloorDiv(EnrollStaggerScalar(payload_).v, EnrollStep(payload_)))

\* a date sequence with one bucket too many
BucketDatesOneMore(start, h, step) == [i \in 0 .. h |-> start + i * step]

\* line 78 (and _bucket_dates of the legacy path)
BucketDates(start, h, step) == [i \in 0 .. h - 1 |-> start + i * step]

\* a call that adds to the totals the call before it left behind
EnrollStartOnKeptTotal ==
    /\ pc = "cohort_enrollment"
    /\ IF EnrollStartRaises(payload)
       THEN /\ pc' = "raised"
            /\ UNCHANGED <<horizon, bucket_dates, effective_rate, stagger_buckets,
                           next_cohort, current_bucket, per_cohort, total>>
       ELSE LET h == EnrollHorizon(payload)
                rate == EffectiveRate(payload) IN
            /\ horizon' = h
            /\ bucket_dates' = BucketDates(EnrollStartDate(payload), h, EnrollStep(payload))
            /\ effective_rate' = rate
            /\ stagger_buckets' = StaggerBuckets(payload)
            /\ next_cohort' = 1
            /\ current_bucket' = 0
            /\ IF payload.cohorts = <<>>
               THEN /\ per_cohort' = [c \in {"ALL"} |-> [i \in 0 .. h - 1 |-> rate]]
                    /\ total' = [i \in 0 .. h - 1 |-> rate]
                    /\ pc' = "enrolled"
               ELSE /\ per_cohort' = <<>>
                    /\ total' = IF DOMAIN total = 0 .. h - 1 /\ h > 0 THEN total
                                ELSE ZeroSeries(h)
                    /\ pc' = "cohorts"
    /\ UNCHANGED <<callVars, payload, now, results, planVars>>

\* lines 49-105: parse the assumptions; without cohorts, return the flat series
EnrollStart ==
    /\ pc = "cohort_enrollment"
    /\ IF EnrollStartRaises(payload)
       THEN /\ pc' = "raised"
            /\ UNCHANGED <<horizon, bucket_dates, effective_rate, stagger_buckets,
                           next_cohort, current_bucket, per_cohort, total>>
       ELSE LET h == EnrollHorizon(payload)
                rate == EffectiveRate(payload) IN
            /\ horizon' = h
            /\ bucket_dates' = BucketDates(EnrollStartDate(payload), h, EnrollStep(payload))
            /\ effective_rate' = rate
            /\ stagger_buckets' = StaggerBuckets(payload)
            /\ next_cohort' = 1
            /\ current_bucket' = 0
            /\ IF payload.cohorts = <<>>
               THEN /\ per_cohort' = [c \in {"ALL"} |-> [i \in 0 .. h - 1 |-> rate]]
                    /\ total' = [i \in 0 .. h - 1 |-> rate]
                    /\ pc' = "enrolled"
               ELSE /\ per_cohort' = <<>>
                    /\ total' = ZeroSeries(h)
                    /\ pc' = "cohorts"
    /\ UNCHANGED <<callVars, payload, now, results, planVars>>

\* lines 109-113
MaxP(cohort) ==
    IF cohort.max_participants.t = "none" THEN Infinity
    ELSE Finite(cohort.max_participants.v * Unit)

\* a fill that ignores the remaining capacity
AddedUncapped(rate, remaining) == rate

\* line 122
Added(rate, remaining) == MinWith(rate, remaining)

\* lines 115-125: the inner loop from bucket i on
RECURSIVE Fill(_, _, _, _, _, _)
Fill(i, h, rate, max_p, enrolled_so_far, cohort_enrolled) ==
    IF i >= h THEN [enrolled_so_far |-> enrolled_so_far, cohort_enrolled |-> cohort_enrolled]
    ELSE LET remaining == Remaining(max_p, enrolled_so_far) IN
         IF NonPositive(remaining)
         THEN [enrolled_so_far |-> enrolled_so_far, cohort_enrolled |-> cohort_enrolled]
         ELSE LET added == Added(rate, remaining) IN
              Fill(i + 1, h, rate, max_p, enrolled_so_far + added,
                   [cohort_enrolled EXCEPT ![i] = added])

\* a finish bucket that is always the start cursor
FinishBucketAtCursor(cur, h, enrolled_so_far, max_p) == cur

\* lines 129-136: enrolled_so_far is final when the loop runs, so the first
\* iteration breaks whenever the cohort filled at all
FinishBucket(cur, h, enrolled_so_far, max_p) ==
    IF cur < h /\ AtLeast(enrolled_so_far, max_p) THEN cur ELSE h - 1

\* lines 107-140: one iteration of the loop over the cohorts
EnrollCohort ==
    /\ pc = "cohorts"
    /\ LET cohort == payload.cohorts[next_cohort]
           max_p == MaxP(cohort)
           filled == Fill(current_bucket, horizon, effective_rate, max_p, 0,
                          ZeroSeries(horizon))
           finish_bucket == FinishBucket(current_bucket, horizon,
                                         filled.enrolled_so_far, max_p)
           cursor == finish_bucket + 1 + stagger_buckets IN
       IF ~(cohort.max_participants.t \in {"none", "num"})
       THEN /\ pc' = "raised"
            /\ UNCHANGED <<next_cohort, current_bucket, per_cohort, total>>
       ELSE /\ per_cohort' = (cohort.cohort_id :> filled.cohort_enrolled) @@ per_cohort
            /\ total' = [i \in DOMAIN total |-> total[i] + filled.cohort_enrolled[i]]
            /\ current_bucket' = cursor
            /\ next_cohort' = next_cohort + 1
            /\ pc' = IF cursor >= horizon \/ next_cohort = Len(payload.cohorts)
                     THEN "enrolled" ELSE "cohorts"
    /\ UNCHANGED <<callVars, payload, now, results, planVars, horizon, bucket_dates,
                   effective_rate, stagger_buckets>>

----------------------------------------------------------------------------
(* Dictionaries and sums *)

Get(f, k, default) == IF k \in DOMAIN f THEN f[k] ELSE default

RECURSIVE SumSeq(_)
SumSeq(q) == IF q = <<>> THEN 0 ELSE Head(q) + SumSeq(Tail(q))

RECURSIVE SumSet(_, _)
SumSet(S, f) ==
    IF S = {} THEN 0
    ELSE LET x == CHOOSE y \in S : TRUE IN f[x] + SumSet(S \ {x}, f)

\* ceil(a / b) for b > 0
CeilDiv(a, b) == -FloorDiv(-a, b)

----------------------------------------------------------------------------
(* expand_visits, visits_per_cohort_per_bucket                             *)
(* A visit id is the sequence of its segments between occurrences of the   *)
(* marker "_w": <<"MAINT_QW", "5">> is "MAINT_QW_w5".                      *)

HasWeekMarker(visit_id) == Len(visit_id) > 1

\* visit_id.rsplit("_w", 1)[0]
StripWeekSuffix(visit_id) == SubSeq(visit_id, 1, Len(visit_id) - 1)

\* f"{visit_id}_w{week_num}"
WithWeekSuffix(visit_id, week_num) == Append(visit_id, ToString(week_num))

DefaultVisits == <<[visit_id |-> <<"DOSE">>, day_offset |-> 0, source_visit_id |-> <<>>]>>

StudyDesignEmpty(payload_) ==
    /\ payload_.cohorts = <<>>
    /\ payload_.visits = <<>>
    /\ DOMAIN payload_.cohort_to_regimen = {}
    /\ DOMAIN payload_.arm_to_regimen = {}

VisitStartScalar(payload_) == Or(payload_.start_date, payload_.scenario_start_date)

VisitHorizonScalar(payload_) ==
    Or(Or(payload_.scenario_horizon_buckets, payload_.horizon_buckets), Num(26))

VisitsUseDates(payload_) ==
    Truthy(VisitStartScalar(payload_)) /\ Truthy(payload_.end_date)

\* lines 46-64
TotalDays(payload_) ==
    IF VisitsUseDates(payload_)
    THEN IF VisitStartScalar(payload_).t = "date" /\ payload_.end_date.t = "date"
         THEN payload_.end_date.v - VisitStartScalar(payload_).v
         ELSE 182
    ELSE EnrollStep(payload_) * VisitHorizonScalar(payload_).v

VisitOffsetScalar(v) == Or(v.day_offset, Num(0))

Repeats(v) == Truthy(v.repeat_every_days) /\ v.repeat_every_days.t = "num"
                 /\ v.repeat_every_days.v > 0

\* the int() conversions of expand_visits that raise
ExpandVisitsRaises(payload_) ==
    /\ ~StudyDesignEmpty(payload_)
    /\ payload_.visits # <<>>
    /\ \/ ~VisitsUseDates(payload_) /\ ~Converts(VisitHorizonScalar(payload_))
       \/ \E n \in 1 .. Len(payload_.visits) :
            \/ ~Converts(VisitOffsetScalar(payload_.visits[n]))
            \/ payload_.visits[n].repeat_every_days.t = "str"

\* lines 83-92: the repeats of one visit from current_offset on
RECURSIVE RepeatInstances(_, _, _, _, _)
RepeatInstances(visit_id, current_offset, week_num, repeat_every, total_days) ==
    IF current_offset > total_days THEN <<>>
    ELSE <<[visit_id |-> WithWeekSuffix(visit_id, week_num),
            day_offset |-> current_offset,
            source_visit_id |-> visit_id]>>
         \o RepeatInstances(visit_id, current_offset + repeat_every, week_num + 1,
                            repeat_every, total_days)

\* instances whose week number leaves out the weeks of the repeat interval
VisitInstancesWeekOfOffset(v, total_days) ==
    LET day_offset == VisitOffsetScalar(v).v
        base == <<[visit_id |-> v.visit_id, day_offset |-> day_offset,
                   source_visit_id |-> v.visit_id]>> IN
    IF Repeats(v)
    THEN base \o RepeatInstances(v.visit_id, day_offset + v.repeat_every_days.v,
                                 FloorDiv(day_offset, 7) + 1,
                                 v.repeat_every_days.v, total_days)
    ELSE base

\* lines 68-98: the instances of one visit definition
VisitInstances(v, total_days) ==
    LET day_offset == VisitOffsetScalar(v).v
        base == <<[visit_id |-> v.visit_id, day_offset |-> day_offset,
                   source_visit_id |-> v.visit_id]>> IN
    IF Repeats(v)
    THEN base \o RepeatInstances(v.visit_id, day_offset + v.repeat_every_days.v,
                                 FloorDiv(day_offset, 7)
                                    + FloorDiv(v.repeat_every_days.v, 7) + 1,
                                 v.repeat_every_days.v, total_days)
    ELSE base

RECURSIVE ExpandFrom(_, _, _)
ExpandFrom(raw_visits, n, total_days) ==
    IF n > Len(raw_visits) THEN <<>>
    ELSE VisitInstances(raw_visits[n], total_days) \o ExpandFrom(raw_visits, n + 1, total_days)

expand_visits(payload_) ==
    IF StudyDesignEmpty(payload_) \/ payload_.visits = <<>>
    THEN DefaultVisits
    ELSE ExpandFrom(payload_.visits, 1, TotalDays(payload_))

ExpandedIds(expanded) == {expanded[n].visit_id : n \in 1 .. Len(expanded)}

\* lines 128-144 for one cohort: visit_id -> counts per bucket
CohortVisits(expanded, enrolled, step, h) ==
    [vid \in ExpandedIds(expanded) |->
        [j \in 0 .. h - 1 |->
            SumSeq([n \in 1 .. Len(expanded) |->
                LET i == j - FloorDiv(expanded[n].day_offset, step) IN
                IF expanded[n].visit_id = vid /\ i \in DOMAIN enrolled
                THEN enrolled[i] ELSE 0])]]

visits_per_cohort_per_bucket(payload_, h, per_cohort_enrolled) ==
    [cid \in DOMAIN per_cohort_enrolled |->
        CohortVisits(expand_visits(payload_), per_cohort_enrolled[cid],
                     EnrollStep(payload_), h)]

----------------------------------------------------------------------------
(* calculate_dose_for_visit                                                *)
(* A dose is counted in ng (thousandths of the output unit, mcg).          *)

NgPerMcg == 1000
DefaultWeightKg == 80

Absent == [t |-> "absent", v |-> 0]

NoDoseRule == [type |-> "none", dose_value |-> Absent, rows |-> <<>>]

EmptyRegimen ==
    [regimen_id |-> "", dose_rule |-> NoDoseRule, weight_kg_mean |-> Absent,
     visit_dispense |-> <<>>]

NoRow == [visit_id |-> <<>>, per_kg_value |-> None, per_kg_uom |-> "", dose_value |-> None]

RowsMatching(rows, visit_id) == {n \in 1 .. Len(rows) : rows[n].visit_id = visit_id}

FirstOf(S) == CHOOSE n \in S : \A m \in S : n <= m

\* the two passes of lines 72-82 in the opposite order
_find_row_for_visit_base_first(rows, visit_id) ==
    IF HasWeekMarker(visit_id) /\ RowsMatching(rows, StripWeekSuffix(visit_id)) # {}
    THEN rows[FirstOf(RowsMatching(rows, StripWeekSuffix(visit_id)))]
    ELSE IF RowsMatching(rows, visit_id) # {}
         THEN rows[FirstOf(RowsMatching(rows, visit_id))]
         ELSE NoRow

\* lines 65-83
_find_row_for_visit(rows, visit_id) ==
    IF RowsMatching(rows, visit_id) # {}
    THEN rows[FirstOf(RowsMatching(rows, visit_id))]
    ELSE IF HasWeekMarker(visit_id) /\ RowsMatching(rows, StripWeekSuffix(visit_id)) # {}
         THEN rows[FirstOf(RowsMatching(rows, StripWeekSuffix(visit_id)))]
         ELSE NoRow

NoDose == [raised |-> FALSE, none |-> TRUE, v |-> 0]
DoseOf(n) == [raised |-> FALSE, none |-> FALSE, v |-> n]
DoseRaises == [raised |-> TRUE, none |-> FALSE, v |-> 0]

IsNone(s) == s.t \in {"none", "absent"}

\* lines 41-60: the dose of a table row
RowDose(row, weight_kg_mean) ==
    IF ~IsNone(row.per_kg_value)
    THEN IF ~Converts(Or(weight_kg_mean, Num(DefaultWeightKg))) \/ ~Converts(row.per_kg_value)
         THEN DoseRaises
         ELSE LET total_ng_or_unit ==
                      row.per_kg_value.v * Or(weight_kg_mean, Num(DefaultWeightKg)).v IN
              IF row.per_kg_uom \in {"mcg_per_kg", "mcg/kg"}
              THEN DoseOf(total_ng_or_unit * NgPerMcg)
              ELSE DoseOf(total_ng_or_unit)
    ELSE IF ~IsNone(row.dose_value)
         THEN IF Converts(row.dose_value) THEN DoseOf(row.dose_value.v * NgPerMcg)
              ELSE DoseRaises
         ELSE NoDose

\* lines 16-62
calculate_dose_for_visit(regimen, visit_id) ==
    IF regimen.dose_rule.type = "none" THEN NoDose
    ELSE IF regimen.dose_rule.type = "fixed"
    THEN IF Converts(Or(regimen.dose_rule.dose_value, Num(0)))
         THEN DoseOf(Or(regimen.dose_rule.dose_value, Num(0)).v * NgPerMcg)
         ELSE DoseRaises
    ELSE IF regimen.dose_rule.type = "table"
    THEN LET row == _find_row_for_visit(regimen.dose_rule.rows, visit_id) IN
         IF row = NoRow THEN NoDose ELSE RowDose(row, regimen.weight_kg_mean)
    ELSE NoDose

----------------------------------------------------------------------------
(* evaluate_dispense                                                       *)
(* The result maps a SKU key to a quantity in eighths of a unit.           *)

McgPerVial == 1000

PresAbsent == "<absent>"
PresNone == "<None>"

NoCalc == [kind |-> "none", d |-> 0]

NoQtys == [raised |-> FALSE, qtys |-> <<>>]
QtysRaise == [raised |-> TRUE, qtys |-> <<>>]

\* lines 28-39: "ceil(dose_mcg / d)", a numeric literal, or an expression whose
\* evaluation fails
_eval_calc(calc, dose) ==
    IF calc.kind = "ceil_div" /\ calc.d # 0
    THEN CeilDiv(dose, NgPerMcg * calc.d) * Unit
    ELSE IF calc.kind = "literal" THEN calc.d
    ELSE Unit

\* a comparison that holds whatever the operator and the threshold are
_eval_condition_always(condition, dose) ==
    IF condition.value.t \in {"none", "str"} THEN "raise" ELSE "true"

\* lines 42-62; the result is "raise" where float(value) raises
_eval_condition(condition, dose) ==
    IF condition.value.t \in {"none", "str"} THEN "raise"
    ELSE LET threshold == condition.value.v * NgPerMcg
             actual == IF condition.field = "dose_mcg" THEN dose ELSE 0
             holds == CASE condition.op = "<" -> actual < threshold
                        [] condition.op = "<=" -> actual <= threshold
                        [] condition.op = ">" -> actual > threshold
                        [] condition.op = ">=" -> actual >= threshold
                        [] condition.op = "==" -> actual = threshold
                        [] condition.op = "!=" -> actual # threshold
                        [] OTHER -> FALSE IN
         IF holds THEN "true" ELSE "false"

\* lines 101-102: all() stops at the first condition that does not hold
RECURSIVE _eval_conditions(_, _, _)
_eval_conditions(cond, n, dose) ==
    IF n > Len(cond) THEN "true"
    ELSE LET r == _eval_condition(cond[n], dose) IN
         IF r = "true" THEN _eval_conditions(cond, n + 1, dose) ELSE r

\* lines 138-140
DispenseKey(item) ==
    LET product_id == IF item.product_id = "" THEN "UNKNOWN" ELSE item.product_id
        pres_id == IF item.presentation_id = PresAbsent THEN "DEFAULT"
                   ELSE IF item.presentation_id = PresNone THEN "None"
                   ELSE item.presentation_id IN
    product_id \o ":" \o pres_id

ItemUsesCalc(item) == item.calc.kind # "none"

ItemRaises(item) == ~ItemUsesCalc(item) /\ item.qty.t = "str"

\* without the floor of line 149
FloorQtyIdentity(qty) == qty

\* line 149
FloorQty(qty) == Max(Unit, qty)

\* lines 35-39: the expressions whose evaluation raises inside the try block
CalcFails(calc) ==
    \/ calc.kind \in {"syntax_error", "unknown_name"}
    \/ calc.kind = "ceil_div" /\ calc.d = 0

\* a failing calc falls back to the literal qty of the item
ItemQtyLiteralOnFailure(item, dose) ==
    FloorQty(IF ItemUsesCalc(item) /\ ~CalcFails(item.calc) THEN _eval_calc(item.calc, dose)
             ELSE IF item.qty.t = "num" THEN item.qty.v
             ELSE Unit)

\* lines 142-149
ItemQty(item, dose) ==
    FloorQty(IF ItemUsesCalc(item) THEN _eval_calc(item.calc, dose)
             ELSE IF item.qty.t = "num" THEN item.qty.v
             ELSE Unit)

\* lines 126-152
_extract_dispense_items(block, dose) ==
    LET items == block.dispense IN
    IF \E n \in 1 .. Len(items) : ItemRaises(items[n]) THEN QtysRaise
    ELSE [raised |-> FALSE,
          qtys |-> [key \in {DispenseKey(items[n]) : n \in 1 .. Len(items)} |->
                      SumSeq([n \in 1 .. Len(items) |->
                                IF DispenseKey(items[n]) = key
                                THEN ItemQty(items[n], dose) ELSE 0])]]

\* lines 106-123, from branch n on
RECURSIVE _eval_conditional(_, _, _)
_eval_conditional(rule_body, n, dose) ==
    IF n > Len(rule_body.conditions)
    THEN _extract_dispense_items(rule_body.default, dose)
    ELSE LET branch == rule_body.conditions[n]
             r == IF branch.if = <<>> THEN "false"
                  ELSE _eval_conditions(branch.if, 1, dose) IN
         IF r = "raise" THEN QtysRaise
         ELSE IF r = "true" THEN _extract_dispense_items(branch.then, dose)
         ELSE _eval_conditional(rule_body, n + 1, dose)

\* lines 81-87
VialOptimization(rule_body, dose) ==
    LET product_id == IF rule_body.product_id = "" THEN "UNKNOWN" ELSE rule_body.product_id
        pres_id == IF rule_body.allowed_presentations # <<>>
                   THEN rule_body.allowed_presentations[1] ELSE "DEFAULT"
        key == product_id \o ":" \o pres_id IN
    [raised |-> FALSE,
     qtys |-> [k \in {key} |-> Max(Unit, CeilDiv(dose, NgPerMcg * McgPerVial) * Unit)]]

\* lines 65-90
evaluate_dispense(dispense_rule, dose) ==
    IF dispense_rule.rule.type = "conditional"
    THEN _eval_conditional(dispense_rule.rule, 1, dose)
    ELSE IF dispense_rule.rule.type = "vial_optimization"
    THEN VialOptimization(dispense_rule.rule, dose)
    ELSE NoQtys

----------------------------------------------------------------------------
(* run_demand_model *)

\* a classification by the products alone
has_rich_scenario_products_only(payload_) == payload_.products # <<>>

\* lines 21-30
has_rich_scenario(payload_) ==
    payload_.products # <<>>
        /\ (payload_.regimens # <<>> \/ payload_.dispense_rules # <<>>)

\* lines 51-56: the running sum from bucket i on
RECURSIVE Cumulate(_, _, _, _)
Cumulate(xs, i, running, cum) ==
    IF i \notin DOMAIN xs THEN cum
    ELSE Cumulate(xs, i + 1, running + xs[i], [cum EXCEPT ![i] = running + xs[i]])

Cumulative(xs) == Cumulate(xs, 0, 0, ZeroSeries(SeriesLen(xs)))

\* lines 71-77: the last entry with the id wins
LastWith(entries, field, id) ==
    LET S == {n \in 1 .. Len(entries) : entries[n][field] = id} IN
    CHOOSE n \in S : \A m \in S : m <= n

\* lines 84-85
RegimenFor(payload_, cohort_id) ==
    LET regimen_id == StrOr(Get(payload_.cohort_to_regimen, cohort_id, ""),
                            Get(payload_.arm_to_regimen, cohort_id, "")) IN
    IF regimen_id = ""
        \/ ~\E n \in 1 .. Len(payload_.regimens) : payload_.regimens[n].regimen_id = regimen_id
    THEN EmptyRegimen
    ELSE payload_.regimens[LastWith(payload_.regimens, "regimen_id", regimen_id)]

\* lines 91-93
SourceVid(visit_id) ==
    IF HasWeekMarker(visit_id) THEN StripWeekSuffix(visit_id) ELSE visit_id

\* lines 96-102: the dispense rule of a visit instance is found
HasDispenseRule(payload_, regimen, visit_id) ==
    LET disp_rule_id == Get(regimen.visit_dispense, SourceVid(visit_id), "") IN
    /\ disp_rule_id # ""
    /\ \E n \in 1 .. Len(payload_.dispense_rules) :
            payload_.dispense_rules[n].dispense_rule_id = disp_rule_id

\* lines 89-110: the quantities per event of one cohort at one visit instance
EventQtys(payload_, cohort_id, visit_id) ==
    LET regimen == RegimenFor(payload_, cohort_id) IN
    IF ~HasDispenseRule(payload_, regimen, visit_id) THEN NoQtys
    ELSE LET disp_rule ==
                 payload_.dispense_rules[
                     LastWith(payload_.dispense_rules, "dispense_rule_id",
                              Get(regimen.visit_dispense, SourceVid(visit_id), ""))]
             dose == calculate_dose_for_visit(regimen, visit_id) IN
         IF dose.raised THEN QtysRaise
         ELSE evaluate_dispense(disp_rule, IF dose.none THEN 0 ELSE dose.v)

Events(cohort_visits) ==
    {<<cid, vid>> : cid \in DOMAIN cohort_visits,
                    vid \in UNION {DOMAIN cohort_visits[c] : c \in DOMAIN cohort_visits}}

\* lines 80-117
Demand(payload_, h, cohort_visits) ==
    LET ev == Events(cohort_visits)
        q == [e \in ev |-> EventQtys(payload_, e[1], e[2]).qtys]
        keys == UNION {DOMAIN q[e] : e \in ev} IN
    [product_key \in keys |->
        [bucket_idx \in 0 .. h - 1 |->
            SumSet({e \in ev : product_key \in DOMAIN q[e]},
                   [e \in ev |->
                       IF product_key \in DOMAIN q[e]
                       THEN (cohort_visits[e[1]][e[2]][bucket_idx] * q[e][product_key])
                                \div Unit
                       ELSE 0])]]

DemandRaises(payload_, cohort_visits) ==
    \E e \in Events(cohort_visits) : EventQtys(payload_, e[1], e[2]).raised

----------------------------------------------------------------------------
(* Legacy path of run_forecast *)

MinBuckets == 1
MaxBuckets == 520
DefaultHorizon == 26

\* lines 46-54
LegacyBucket(payload_) ==
    _norm_bucket(StrOr(StrOr(payload_.scenario_forecast_bucket, payload_.forecast_bucket),
                       "week"))

\* lines 56-71
LegacyHorizon(payload_) ==
    LET h == Or(Or(payload_.scenario_horizon_buckets, payload_.horizon_buckets),
                Num(DefaultHorizon))
        horizon_buckets == IF Converts(h) THEN h.v ELSE DefaultHorizon IN
    Max(MinBuckets, Min(horizon_buckets, MaxBuckets))

\* lines 74-87
_infer_start_date(payload_) ==
    IF _parse_date(payload_.scenario_start_date).t = "date"
    THEN payload_.scenario_start_date.v
    ELSE IF _parse_date(payload_.start_date).t = "date" THEN payload_.start_date.v
    ELSE Today

\* lines 99-105 followed by `or`
CoerceOr(v, default) == IF v.t = "num" /\ v.v # 0 THEN v.v ELSE default

Clamp(lo, x, hi) == Max(lo, Min(hi, x))

\* lines 143-162
WaveStart(wave, h) == Clamp(0, CoerceOr(wave.start_bucket_index, 0), h - 1)

WaveEnd(wave, h) ==
    LET e == Clamp(0, CoerceOr(wave.end_bucket_index, h - 1), h - 1) IN
    IF e < WaveStart(wave, h) THEN WaveStart(wave, h) ELSE e

\* lines 165-177
_infer_wave_rate(wave) ==
    LET rate == Or(wave.enrollment_rate_per_bucket, Num(0)) IN
    IF Converts(rate) THEN rate.v ELSE 0

\* lines 249-256
LegacyGlobalRate(payload_) ==
    LET global_rate == Or(payload_.enrollment_rate_per_bucket, None) IN
    IF Converts(global_rate) THEN global_rate.v ELSE 0

\* lines 227-261
_enrollment_per_bucket(payload_) ==
    LET h == LegacyHorizon(payload_)
        waves == payload_.enrollment_waves IN
    IF waves # <<>>
    THEN [i \in 0 .. h - 1 |->
            SumSeq([n \in 1 .. Len(waves) |->
                      IF WaveStart(waves[n], h) <= i /\ i <= WaveEnd(waves[n], h)
                      THEN _infer_wave_rate(waves[n]) ELSE 0])]
    ELSE [i \in 0 .. h - 1 |-> LegacyGlobalRate(payload_)]

\* lines 362-374
_simple_demand_model(payload_, enrolled) ==
    [item \in {StrOr(payload_.trial_code, "TRIAL") \o ":KIT"} |-> enrolled]

----------------------------------------------------------------------------
(* run_forecast *)

EngineVersion == "ENGINE_VERSION"

\* date.isoformat()
IsoFormat(d) == Date(d)

IsoDates(dates) == [i \in DOMAIN dates |-> IsoFormat(dates[i])]

RaisedResult ==
    [status |-> "raised", path |-> "", engine_version |-> "", generated_at |-> 0,
     bucket_dates |-> <<>>, enrolled_per_bucket |-> <<>>, cumulative_enrolled |-> <<>>,
     enrollment_by_cohort |-> <<>>, demand |-> <<>>, visit_schedule_expanded |-> <<>>,
     visits_by_cohort |-> <<>>, visits_per_bucket |-> <<>>,
     total_visits_per_bucket |-> <<>>]

\* lines 377-379, 390: dispatch on the shape of the document
ForecastStart ==
    /\ pc = "idle"
    /\ Len(results) < MaxRuns
    /\ pc' = IF has_rich_scenario(payload) THEN "cohort_enrollment" ELSE "legacy"
    /\ UNCHANGED <<callVars, payload, now, results, planVars, horizon, bucket_dates,
                   effective_rate, stagger_buckets, next_cohort, current_bucket,
                   per_cohort, total>>

\* run_demand_model lines 49-132 and run_forecast lines 381-388
RunDemandModel ==
    /\ pc = "enrolled"
    /\ LET h == SeriesLen(bucket_dates)
           cohort_visits == visits_per_cohort_per_bucket(payload, h, per_cohort) IN
       IF ExpandVisitsRaises(payload) \/ DemandRaises(payload, cohort_visits)
       THEN pc' = "raised" /\ UNCHANGED results
       ELSE /\ results' = Append(results,
                [status |-> "ok", path |-> "rich",
                 engine_version |-> EngineVersion,
                 generated_at |-> now,
                 bucket_dates |-> IsoDates(bucket_dates),
                 enrolled_per_bucket |-> total,
                 cumulative_enrolled |-> Cumulative(total),
                 enrollment_by_cohort |-> per_cohort,
                 demand |-> Demand(payload, h, cohort_visits),
                 visit_schedule_expanded |-> expand_visits(payload),
                 visits_by_cohort |-> cohort_visits,
                 visits_per_bucket |-> <<>>,
                 total_visits_per_bucket |-> <<>>])
            /\ pc' = "idle"
    /\ UNCHANGED <<callVars, payload, now, planVars, horizon, bucket_dates, effective_rate,
                   stagger_buckets, next_cohort, current_bucket, per_cohort, total>>

\* lines 390-419, with the default visit schedule (one "Dose" visit at day 0)
LegacyForecast ==
    /\ pc = "legacy"
    /\ LET enrolled == _enrollment_per_bucket(payload)
           dates == BucketDates(_infer_start_date(payload), LegacyHorizon(payload),
                                _bucket_step_days(LegacyBucket(payload))) IN
       results' = Append(results,
            [status |-> "ok", path |-> "legacy",
             engine_version |-> EngineVersion,
             generated_at |-> now,
             bucket_dates |-> IsoDates(dates),
             enrolled_per_bucket |-> enrolled,
             cumulative_enrolled |-> Cumulative(enrolled),
             enrollment_by_cohort |-> <<>>,
             demand |-> _simple_demand_model(payload, enrolled),
             visit_schedule_expanded |-> <<>>,
             visits_by_cohort |-> <<>>,
             visits_per_bucket |-> [name \in {"Dose"} |-> enrolled],
             total_visits_per_bucket |-> enrolled])
    /\ pc' = "idle"
    /\ UNCHANGED <<callVars, payload, now, planVars, horizon, bucket_dates, effective_rate,
                   stagger_buckets, next_cohort, current_bucket, per_cohort, total>>

\* an exception leaves run_forecast: the caller gets no result
Propagate ==
    /\ pc = "raised"
    /\ results' = Append(results, RaisedResult)
    /\ pc' = "idle"
    /\ UNCHANGED <<callVars, payload, now, planVars, horizon, bucket_dates, effective_rate,
                   stagger_buckets, next_cohort, current_bucket, per_cohort, total>>

\* time passes
Tick ==
    /\ now < MaxNow
    /\ now' = now + 1
    /\ UNCHANGED <<callVars, payload, enrollVars, results, planVars>>

----------------------------------------------------------------------------
(* Documents *)

BasePayload ==
    [ scenario_start_date |-> None,
      scenario_horizon_buckets |-> None,
      scenario_forecast_bucket |-> "",
      start_date |-> None,
      end_date |-> None,
      forecast_bucket |-> "",
      horizon_buckets |-> None,
      enrollment_waves |-> <<>>,
      enrollment_rate_per_bucket |-> None,
      cohort_stagger_days |-> None,
      cohorts |-> <<>>,
      visits |-> <<>>,
      cohort_to_regimen |-> <<>>,
      arm_to_regimen |-> <<>>,
      products |-> <<>>,
      regimens |-> <<>>,
      dispense_rules |-> <<>>,
      trial_code |-> "",
      buffers |-> [depot_safety_stock_days |-> None, site_safety_stock_days |-> None],
      global_overage_factor |-> None ]

Wave(rate, screen_fail) ==
    [enrollment_rate_per_bucket |-> rate, screen_fail_rate |-> screen_fail,
     start_bucket_index |-> None, end_bucket_index |-> None]

CohortIds == <<"DL1", "DL2", "DL3", "DL4">>

\* no cap, the caps up to MaxCap, and one cap that takes three buckets at rate 2
MaxParticipantsSet == {None} \cup {Num(n) : n \in 0 .. MaxCap} \cup {Num(2 * MaxCap)}

\* every list of up to MaxCohorts cohorts, and one where a cohort without max
\* stands between two capped ones
CohortLists ==
    UNION {[1 .. n -> MaxParticipantsSet] : n \in 0 .. MaxCohorts}
        \cup {<<Num(1), None, Num(2)>>}

MkCohorts(ms) ==
    [j \in 1 .. Len(ms) |-> [cohort_id |-> CohortIds[j], max_participants |-> ms[j]]]

\* enrollment rates, in eighths of a subject: -1, 0, 1/2, 1, 2
RateSet == {-Unit, 0, Unit \div 2, Unit, 2 * Unit}
ScreenFailSet == {None, Num(Unit \div 2)}
StaggerSet == {None, Num(7), Num(35)}

EnrollPayloads ==
    { [BasePayload EXCEPT
          !.scenario_horizon_buckets = Num(h),
          !.forecast_bucket = b,
          !.enrollment_waves = <<Wave(Num(r), sf)>>,
          !.cohort_stagger_days = sg,
          !.cohorts = MkCohorts(ms)] :
        h \in 1 .. MaxHorizon, b \in {"", "MONTH"}, r \in RateSet,
        sf \in ScreenFailSet, sg \in StaggerSet, ms \in CohortLists }

\* no call of cohort_enrollment has run
EnrollIdle ==
    /\ horizon = 0
    /\ bucket_dates = <<>>
    /\ effective_rate = 0
    /\ stagger_buckets = 0
    /\ next_cohort = 1
    /\ current_bucket = 0
    /\ per_cohort = <<>>
    /\ total = <<>>

\* no call of generate_supply_plan has run
PlanIdle ==
    /\ params = [depot_ss_days |-> 0, site_ss_days |-> 0, overage |-> 0, bucket_step |-> 0]
    /\ product_demand = <<>>
    /\ starting_inv = <<>>
    /\ sku_index = 1
    /\ bucket_index = 0
    /\ on_hand = 0
    /\ stockout_detected = FALSE
    /\ projected = <<>>
    /\ projected_inventory = <<>>
    /\ reorder_points = <<>>
    /\ planned_shipments = <<>>
    /\ stockout_alerts = <<>>
    /\ safety_stock_summary = <<>>

NoForecastOutput == [bucket_dates |-> <<>>, demand |-> <<>>]

\* no direct call of a helper has been made
ThreadIdle == current_thread = 1 /\ parked = <<>> /\ preempted = {}

\* no table has a row and no request is under way
DbIdle ==
    /\ shipments = <<>>
    /\ lots = <<>>
    /\ txns = <<>>
    /\ scenario_versions = <<>>
    /\ requests = <<>>

CallIdle == args = <<>> /\ ret = <<>> /\ ThreadIdle /\ DbIdle

InitEnroll ==
    /\ payload \in EnrollPayloads
    /\ now = 0
    /\ pc = "cohort_enrollment"
    /\ EnrollIdle
    /\ results = <<>>
    /\ forecast_output = NoForecastOutput
    /\ inventory = <<>>
    /\ PlanIdle
    /\ CallIdle

NextEnroll == EnrollStart \/ EnrollCohort

SpecEnroll == InitEnroll /\ [][NextEnroll]_vars

----------------------------------------------------------------------------
(* Documents of the forecast runs *)

Visit(id, offset, repeat) ==
    [visit_id |-> <<id>>, day_offset |-> offset, repeat_every_days |-> repeat]

\* a visit that does not repeat and whose own id is "FU_w2"
FollowUpVisit ==
    [visit_id |-> <<"FU", "2">>, day_offset |-> Num(7), repeat_every_days |-> None]

VisitLists ==
    { <<Visit("C1D1", Num(0), None)>>,
      <<Visit("C1D1", Num(0), None), Visit("MAINT_QW", Num(7), Num(7))>>,
      <<Visit("C1D1", Num(0), None), FollowUpVisit>> }

Item(product_id, presentation_id, qty) ==
    [product_id |-> product_id, presentation_id |-> presentation_id,
     qty |-> qty, calc |-> NoCalc]

Block(items) == [dispense |-> items]

Condition(op, value) == [field |-> "dose_mcg", op |-> op, value |-> value]

ConditionalRule(id, threshold, qty) ==
    [dispense_rule_id |-> id,
     rule |-> [type |-> "conditional",
               conditions |-> <<[if |-> <<Condition("<", threshold)>>,
                                 then |-> Block(<<Item("IP_DP", "DP_VIAL_STD", qty)>>)]>>,
               default |-> Block(<<>>),
               product_id |-> "",
               allowed_presentations |-> <<>>]]

FixedRegimen(id, dose_value) ==
    [regimen_id |-> id,
     dose_rule |-> [type |-> "fixed", dose_value |-> dose_value, rows |-> <<>>],
     weight_kg_mean |-> Absent,
     visit_dispense |-> (<<"C1D1">> :> "DR1") @@ (<<"MAINT_QW">> :> "DR1")
                           @@ (<<"FU", "2">> :> "DR2")]

\* two units of the high-strength vial below 300 mcg
HighRule(id) ==
    [dispense_rule_id |-> id,
     rule |-> [type |-> "conditional",
               conditions |-> <<[if |-> <<Condition("<", Num(300))>>,
                                 then |-> Block(<<Item("IP_DP", "DP_VIAL_HIGH",
                                                       Num(2 * Unit))>>)]>>,
               default |-> Block(<<>>),
               product_id |-> "",
               allowed_presentations |-> <<>>]]

\* the scalars of the dosing part: well-formed, or one of them malformed
DosingScalars ==
    { [dose_value |-> Num(200), threshold |-> Num(300), qty |-> Num(Unit)],
      [dose_value |-> BadStr, threshold |-> Num(300), qty |-> Num(Unit)],
      [dose_value |-> Num(200), threshold |-> None, qty |-> Num(Unit)],
      [dose_value |-> Num(200), threshold |-> Num(300), qty |-> BadStr] }

ForecastCohortLists ==
    { <<>>, MkCohorts(<<Num(1)>>), MkCohorts(<<Num(1), None>>) }

ForecastRates == {Num(-Unit), Num(Unit), BadStr}
ForecastHorizons == {Num(-1), Num(2), Num(MaxHorizon), BadStr}
ForecastStarts == {None, Date(3)}

RichPayloads ==
    { [BasePayload EXCEPT
          !.start_date = sd,
          !.scenario_horizon_buckets = h,
          !.enrollment_waves = <<Wave(r, None)>>,
          !.cohorts = cs,
          !.visits = vs,
          !.cohort_to_regimen = ("DL1" :> "REG1") @@ ("DL2" :> "REG1"),
          !.products = <<"IP_DP">>,
          !.regimens = <<FixedRegimen("REG1", ds.dose_value)>>,
          !.dispense_rules = <<ConditionalRule("DR1", ds.threshold, ds.qty),
                               HighRule("DR2")>>] :
        sd \in ForecastStarts, h \in ForecastHorizons, r \in ForecastRates,
        cs \in ForecastCohortLists, vs \in VisitLists, ds \in DosingScalars }

\* documents that have only some of products, regimens and dispense_rules
ShapePayloads ==
    { [BasePayload EXCEPT
          !.start_date = Date(3),
          !.scenario_horizon_buckets = Num(2),
          !.enrollment_waves = <<Wave(Num(Unit), None)>>,
          !.cohorts = MkCohorts(<<Num(1)>>),
          !.visits = <<Visit("C1D1", Num(0), None)>>,
          !.cohort_to_regimen = ("DL1" :> "REG1"),
          !.trial_code = tc,
          !.products = ps,
          !.regimens = rs,
          !.dispense_rules = ds] :
        tc \in {"", "ABC-101"},
        ps \in {<<>>, <<"IP_DP">>},
        rs \in {<<>>, <<FixedRegimen("REG1", Num(200))>>, <<FixedRegimen("REG1", BadStr)>>},
        ds \in {<<>>, <<ConditionalRule("DR1", Num(300), Num(Unit))>>,
                 <<ConditionalRule("DR1", None, Num(Unit))>>} }

LegacyPayloads ==
    { [BasePayload EXCEPT
          !.start_date = sd,
          !.scenario_horizon_buckets = h,
          !.enrollment_waves = IF w THEN <<Wave(r, None)>> ELSE <<>>,
          !.enrollment_rate_per_bucket = r] :
        sd \in ForecastStarts, h \in ForecastHorizons, r \in ForecastRates,
        w \in BOOLEAN }

InitForecast ==
    /\ payload \in RichPayloads \cup LegacyPayloads \cup ShapePayloads
    /\ now = 0
    /\ pc = "idle"
    /\ EnrollIdle
    /\ results = <<>>
    /\ forecast_output = NoForecastOutput
    /\ inventory = <<>>
    /\ PlanIdle
    /\ CallIdle

NextForecast ==
    \/ ForecastStart
    \/ EnrollStart
    \/ EnrollCohort
    \/ RunDemandModel
    \/ LegacyForecast
    \/ Propagate
    \/ Tick

SpecForecast == InitForecast /\ [][NextForecast]_vars

----------------------------------------------------------------------------
(* generate_supply_plan                                                    *)
(* Quantities are counted in eighths; avg_demand, safety_stock and         *)
(* reorder_point are the exact rationals sum/len, sum*D/(len*T) and        *)
(* sum*(D + 2T)/(len*T), compared and rounded without forming a float.     *)
(* The documents below keep every rounded value either exactly             *)
(* representable or off a rounding tie, where the float agrees with the    *)
(* rational.                                                               *)

DefaultDepotDays == 30
DefaultSiteDays == 14
LeadBuffer == 2
MinCoverBuckets == 4
LeadTimeDays == 3 * 7

Abs(x) == IF x < 0 THEN -x ELSE x

\* round(n / d, 0) for d > 0: to the nearest integer, ties to the even one
RoundHalfEven(n, d) ==
    LET a == Abs(n)
        q == a \div d
        r == a % d
        m == IF 2 * r > d \/ (2 * r = d /\ q % 2 = 1) THEN q + 1 ELSE q IN
    IF n < 0 THEN -m ELSE m

\* round(x, 1) of a quantity counted in eighths, as a count of tenths
RoundTenths(x) == RoundHalfEven(10 * x, Unit)

\* the hundredths of x cut off instead of rounded
RoundHundredthsDown(x) == (100 * x) \div Unit

\* round(x, 2) of a quantity counted in eighths, as a count of hundredths
RoundHundredths(x) == RoundHalfEven(100 * x, Unit)

\* line 49: assumptions.get("buffers", {}) is None when the stored document
\* carries "buffers": null
BuffersMissing(payload_) == payload_.buffers = None

DepotDaysScalar(payload_) == Or(payload_.buffers.depot_safety_stock_days, Num(DefaultDepotDays))
SiteDaysScalar(payload_) == Or(payload_.buffers.site_safety_stock_days, Num(DefaultSiteDays))
OverageScalar(payload_) == Or(payload_.global_overage_factor, Num(Unit))

\* line 84
InventoryQtyScalar(inv) == Or(inv.qty, Num(0))

\* lines 49, 58-60 and 84
PlanStartRaises(payload_, inventory_) ==
    \/ BuffersMissing(payload_)
    \/ ~Converts(DepotDaysScalar(payload_))
    \/ ~Converts(SiteDaysScalar(payload_))
    \/ ~Converts(OverageScalar(payload_))
    \/ \E n \in 1 .. Len(inventory_) : ~Converts(InventoryQtyScalar(inventory_[n]))

\* lines 54-55
BucketStep(bucket_dates_str) ==
    LET day(n) == IF _parse_date(bucket_dates_str[n]).t = "date"
                  THEN bucket_dates_str[n].v ELSE Today IN
    IF SeriesLen(bucket_dates_str) < 2 THEN 7 ELSE day(1) - day(0)

\* lines 81-83
InventorySku(inv) ==
    IF inv.presentation_id \in {PresAbsent, PresNone, ""}
    THEN inv.product_id
    ELSE inv.product_id \o ":" \o inv.presentation_id

\* lines 76-92
StartingInventory(inventory_) ==
    [sku \in {InventorySku(inventory_[n]) : n \in 1 .. Len(inventory_)} |->
        SumSeq([n \in 1 .. Len(inventory_) |->
                  IF InventorySku(inventory_[n]) = sku
                  THEN InventoryQtyScalar(inventory_[n]).v ELSE 0])]

\* lines 70-73; the documents keep every product v * overage a whole number of
\* eighths
ProductDemand(demand, overage) ==
    [n \in 1 .. Len(demand) |->
        [sku |-> demand[n].sku,
         series |-> [i \in DOMAIN demand[n].series |->
                        (demand[n].series[i] * overage) \div Unit]]]

\* lines 48-100
PlanStart ==
    /\ pc = "generate_supply_plan"
    /\ IF PlanStartRaises(payload, inventory)
       THEN /\ pc' = "raised"
            /\ UNCHANGED <<params, product_demand, starting_inv>>
       ELSE /\ params' = [depot_ss_days |-> DepotDaysScalar(payload).v,
                          site_ss_days |-> SiteDaysScalar(payload).v,
                          overage |-> OverageScalar(payload).v,
                          bucket_step |-> BucketStep(forecast_output.bucket_dates)]
            /\ product_demand' = ProductDemand(forecast_output.demand,
                                               OverageScalar(payload).v)
            /\ starting_inv' = StartingInventory(inventory)
            /\ pc' = "skus"
    /\ UNCHANGED <<callVars, payload, now, cohortVars, results, forecast_output, inventory,
                   sku_index, bucket_index, on_hand, stockout_detected, projected,
                   projected_inventory, reorder_points, planned_shipments,
                   stockout_alerts, safety_stock_summary>>

SeriesSum(series) == PrefixSum(series, SeriesLen(series) - 1)

\* the denominator of avg_demand * ss_buckets: len * max(bucket_step, 1)
RateDenominator(series, bucket_step) == Max(SeriesLen(series), 1) * Max(bucket_step, 1)

\* lines 107-110: reorder_point as numerator over RateDenominator
ReorderNumerator(series, depot_ss_days, bucket_step) ==
    SeriesSum(series) * (depot_ss_days + LeadBuffer * Max(bucket_step, 1))

\* line 119: on_hand <= reorder_point
ReorderNeeded(on_hand_, series, depot_ss_days, bucket_step) ==
    on_hand_ * RateDenominator(series, bucket_step)
        <= ReorderNumerator(series, depot_ss_days, bucket_step)

\* lines 121-125, in whole units
OrderQty(series, depot_ss_days, bucket_step, h, i) ==
    CeilDiv(Max(2 * SeriesSum(series) * depot_ss_days,
                SeriesSum(series) * Max(h - i, MinCoverBuckets) * Max(bucket_step, 1)),
            RateDenominator(series, bucket_step) * Unit)

\* a delivery bucket that is not held within the horizon
DeliveryBucketUncapped(i, bucket_step, h) ==
    i + Max(1, LeadTimeDays \div bucket_step)

\* lines 127-128
DeliveryBucket(i, bucket_step, h) ==
    Min(i + Max(1, LeadTimeDays \div bucket_step), h - 1)

\* lines 130-138
PlannedShipment(sku, i, on_hand_, series, h) ==
    [sku |-> sku,
     order_bucket_index |-> i,
     delivery_bucket_index |-> DeliveryBucket(i, params.bucket_step, h),
     qty |-> OrderQty(series, params.depot_ss_days, params.bucket_step, h, i),
     reason |-> IF on_hand_ > 0 THEN "REORDER_POINT" ELSE "STOCKOUT_PREVENTION"]

\* an alert whose deficit is cut to the tenth below
StockoutAlertTruncated(sku, i, on_hand_) ==
    [sku |-> sku, stockout_bucket_index |-> i,
     deficit |-> (10 * Abs(on_hand_)) \div Unit]

\* lines 151-156
StockoutAlert(sku, i, on_hand_) ==
    [sku |-> sku, stockout_bucket_index |-> i, deficit |-> RoundTenths(Abs(on_hand_))]

\* line 160 and the step of the loop over the SKUs
NextSku(done) ==
    /\ projected_inventory' =
            (product_demand[sku_index].sku :> done) @@ projected_inventory
    /\ sku_index' = sku_index + 1
    /\ pc' = IF sku_index = Len(product_demand) THEN "summary" ELSE "skus"

\* lines 102-113: the next SKU of the loop
PlanSku ==
    /\ pc = "skus"
    /\ IF product_demand = <<>>
       THEN /\ pc' = "summary"
            /\ UNCHANGED <<sku_index, bucket_index, on_hand, stockout_detected,
                           projected, projected_inventory, reorder_points>>
       ELSE LET sku == product_demand[sku_index].sku
                series == product_demand[sku_index].series IN
            /\ on_hand' = Get(starting_inv, sku, 0)
            /\ projected' = <<>>
            /\ reorder_points' =
                 (sku :> RoundHalfEven(
                            10 * ReorderNumerator(series, params.depot_ss_days,
                                                  params.bucket_step),
                            RateDenominator(series, params.bucket_step) * Unit))
                 @@ reorder_points
            /\ stockout_detected' = FALSE
            /\ bucket_index' = 0
            /\ IF SeriesLen(series) = 0
               THEN NextSku(<<>>)
               ELSE /\ pc' = "buckets"
                    /\ UNCHANGED <<sku_index, projected_inventory>>
    /\ UNCHANGED <<callVars, payload, now, cohortVars, results, forecast_output, inventory,
                   params, product_demand, starting_inv, planned_shipments,
                   stockout_alerts, safety_stock_summary>>

\* lines 115-158: one bucket of the current SKU
PlanBucket ==
    /\ pc = "buckets"
    /\ LET sku == product_demand[sku_index].sku
           series == product_demand[sku_index].series
           h == SeriesLen(forecast_output.bucket_dates)
           i == bucket_index
           left == on_hand - series[i]
           reorder == ReorderNeeded(left, series, params.depot_ss_days,
                                    params.bucket_step) /\ ~stockout_detected
           stockout == left < 0 /\ ~stockout_detected
           so_far == Append(projected, RoundHundredths(left)) IN
       /\ on_hand' = left
       /\ planned_shipments' =
            IF reorder
            THEN Append(planned_shipments, PlannedShipment(sku, i, left, series, h))
            ELSE planned_shipments
       /\ stockout_alerts' =
            IF stockout THEN Append(stockout_alerts, StockoutAlert(sku, i, left))
            ELSE stockout_alerts
       /\ stockout_detected' = (stockout_detected \/ stockout)
       /\ projected' = so_far
       /\ bucket_index' = i + 1
       /\ IF i + 1 = SeriesLen(series)
          THEN NextSku(so_far)
          ELSE /\ pc' = "buckets"
               /\ UNCHANGED <<sku_index, projected_inventory>>
    /\ UNCHANGED <<callVars, payload, now, cohortVars, results, forecast_output, inventory,
                   params, product_demand, starting_inv, reorder_points,
                   safety_stock_summary>>

\* lines 162-186
PlanReturn ==
    /\ pc = "summary"
    /\ safety_stock_summary' =
         [sku \in {product_demand[n].sku : n \in 1 .. Len(product_demand)} |->
            LET series == product_demand[
                              CHOOSE n \in 1 .. Len(product_demand) :
                                  product_demand[n].sku = sku].series
                den == RateDenominator(series, params.bucket_step) * Unit IN
            [depot_safety_stock |->
                 RoundHalfEven(10 * SeriesSum(series) * params.depot_ss_days, den),
             site_safety_stock |->
                 RoundHalfEven(10 * SeriesSum(series) * params.site_ss_days, den),
             reorder_point |-> Get(reorder_points, sku, 0)]]
    /\ pc' = "planned"
    /\ UNCHANGED <<callVars, payload, now, cohortVars, results, forecast_output, inventory,
                   params, product_demand, starting_inv, sku_index, bucket_index,
                   on_hand, stockout_detected, projected, projected_inventory,
                   reorder_points, planned_shipments, stockout_alerts>>

----------------------------------------------------------------------------
(* Inputs of generate_supply_plan *)

\* a conditional rule without branches: its default block is dispensed
DefaultRule(id, items) ==
    [dispense_rule_id |-> id,
     rule |-> [type |-> "conditional",
               conditions |-> <<>>,
               default |-> Block(items),
               product_id |-> "",
               allowed_presentations |-> <<>>]]

\* the presentation of the dispensed item: missing, null, or named
ItemPresentations == {PresAbsent, PresNone, "DP_VIAL_STD"}

PlanItems ==
    { <<Item("IP_DP", pres, Num(Unit))>> : pres \in ItemPresentations }
    \cup { <<Item("IP_DP", "DP_VIAL_STD", Num(Unit)),
             Item("IP_DP", "DP_VIAL_HIGH", Num(Unit))>> }

\* safety-stock days and overage factor: the defaults, an overage of 1.5, a
\* negative day count, a non-numeric day count, a negative overage, no buffers
PlanAssumptions ==
    { [buffers |-> [depot_safety_stock_days |-> None, site_safety_stock_days |-> None],
       overage |-> None],
      [buffers |-> [depot_safety_stock_days |-> None, site_safety_stock_days |-> Num(10)],
       overage |-> Num(Unit + Unit \div 2)],
      [buffers |-> [depot_safety_stock_days |-> Num(-4 * 7),
                    site_safety_stock_days |-> None],
       overage |-> None],
      [buffers |-> [depot_safety_stock_days |-> BadStr, site_safety_stock_days |-> None],
       overage |-> None],
      [buffers |-> [depot_safety_stock_days |-> None, site_safety_stock_days |-> None],
       overage |-> Num(-Unit)],
      [buffers |-> None, overage |-> None] }

PlanPayloads ==
    { [BasePayload EXCEPT
          !.products = <<"IP_DP">>,
          !.dispense_rules = <<DefaultRule("DR1", items)>>,
          !.buffers = a.buffers,
          !.global_overage_factor = a.overage] :
        items \in PlanItems, a \in PlanAssumptions }

\* per-bucket demand of a SKU, in eighths: the constant series of 1/4, of 10
\* and of -1 (the demand of a negative enrollment rate)
ConstantSeries(h) ==
    {[i \in 0 .. h - 1 |-> Unit \div 4], [i \in 0 .. h - 1 |-> 10 * Unit],
     [i \in 0 .. h - 1 |-> -Unit]}

\* every series of 0 and 1, and the constant series
DemandSeries(h) == [0 .. h - 1 -> {0, Unit}] \cup ConstantSeries(h)

\* the demand map of a forecast: one series per key of the dispensed items
DemandMap(payload_, series) ==
    LET items == payload_.dispense_rules[1].rule.default.dispense IN
    [n \in 1 .. Len(items) |->
        [sku |-> DispenseKey(items[n]),
         series |-> IF n = 1 THEN series
                    ELSE [i \in DOMAIN series |-> Unit]]]

ForecastOutput(payload_, h, step, series) ==
    [bucket_dates |-> IsoDates(BucketDates(3, h, step)),
     demand |-> DemandMap(payload_, series)]

\* weekly forecasts of every demand series, monthly forecasts of the constant
\* ones, and a forecast without buckets
ForecastOutputs(payload_) ==
    UNION { { ForecastOutput(payload_, h, _bucket_step_days("week"), series) :
                series \in DemandSeries(h) }
            \cup { ForecastOutput(payload_, h, _bucket_step_days("month"), series) :
                     series \in ConstantSeries(h) } :
            h \in 1 .. MaxPlanHorizon }
    \cup {NoForecastOutput}

InventoryRecord(presentation_id, qty) ==
    [node_id |-> "DEPOT", product_id |-> "IP_DP",
     presentation_id |-> presentation_id, qty |-> qty]

\* inventory snapshots, quantities in eighths: none, 3 units without a
\* presentation or with an empty one, 3/8 and 100 units of the standard vial,
\* and the standard vial at two nodes
Inventories ==
    { <<>>,
      <<InventoryRecord(PresAbsent, Num(3 * Unit))>>,
      <<InventoryRecord(PresNone, Num(3 * Unit))>>,
      <<InventoryRecord("DP_VIAL_STD", Num(3))>>,
      <<InventoryRecord("DP_VIAL_STD", Num(100 * Unit))>>,
      <<InventoryRecord("DP_VIAL_STD", Num(2 * Unit)),
        InventoryRecord("DP_VIAL_STD", None)>> }

InitPlan ==
    /\ payload \in PlanPayloads
    /\ now = 0
    /\ pc = "generate_supply_plan"
    /\ EnrollIdle
    /\ results = <<>>
    /\ forecast_output \in ForecastOutputs(payload)
    /\ inventory \in Inventories
    /\ PlanIdle
    /\ CallIdle

NextPlan == PlanStart \/ PlanSku \/ PlanBucket \/ PlanReturn

SpecPlan == InitPlan /\ [][NextPlan]_vars

----------------------------------------------------------------------------
(* Direct calls of evaluate_dispense and _find_row_for_visit               *)
(* args holds the arguments, ret the returned value (<<>> before the call  *)
(* returns).                                                               *)

CallEvaluateDispense ==
    /\ args # <<>>
    /\ args.fn = "evaluate_dispense"
    /\ ret = <<>>
    /\ ret' = evaluate_dispense(args.dispense_rule, args.dose_mcg)
    /\ UNCHANGED <<args, threadVars, dbVars, payload, now, enrollVars, results, planVars>>

CallFindRow ==
    /\ args # <<>>
    /\ args.fn = "_find_row_for_visit"
    /\ ret = <<>>
    /\ ret' = _find_row_for_visit(args.rows, args.visit_id)
    /\ UNCHANGED <<args, threadVars, dbVars, payload, now, enrollVars, results, planVars>>

CallExpandVisits ==
    /\ args # <<>>
    /\ args.fn = "expand_visits"
    /\ ret = <<>>
    /\ ~ExpandVisitsRaises(args.payload)
    /\ ret' = expand_visits(args.payload)
    /\ UNCHANGED <<args, threadVars, dbVars, payload, now, enrollVars, results, planVars>>

----------------------------------------------------------------------------
(* Arguments of the direct calls *)

CalcItem(presentation_id, calc, qty) ==
    [product_id |-> "IP_DP", presentation_id |-> presentation_id,
     qty |-> qty, calc |-> calc]

CeilDivCalc(d) == [kind |-> "ceil_div", d |-> d]
LiteralCalc(v) == [kind |-> "literal", d |-> v]
SyntaxErrorCalc == [kind |-> "syntax_error", d |-> 0]
UnknownNameCalc == [kind |-> "unknown_name", d |-> 0]

\* literal quantities below, at and above 1, and none at all
LiteralItems ==
    { Item("IP_DP", "DP_VIAL_STD", q) :
        q \in {Num(-Unit), Num(0), Num(Unit \div 2), Num(Unit),
               Num(2 * Unit + Unit \div 2), None, BadStr} }

\* calc expressions: ceil(dose_mcg / d), a number, and expressions that fail;
\* the literal qty beside a calc is ignored by the source
CalcItems ==
    { CalcItem("DP_VIAL_STD", c, q) :
        c \in {CeilDivCalc(100), CeilDivCalc(0), LiteralCalc(0), LiteralCalc(-2 * Unit),
               LiteralCalc(3 * Unit), SyntaxErrorCalc, UnknownNameCalc},
        q \in {None, Num(3 * Unit)} }

\* items that share a SKU within one block
SharedSkuItems ==
    { Item("IP_DP", "DP_VIAL_STD", Num(0)),
      Item("IP_DP", "DP_VIAL_STD", Num(-Unit)),
      Item("IP_DP", "DP_VIAL_STD", Num(2 * Unit)),
      CalcItem("DP_VIAL_STD", CeilDivCalc(0), None),
      CalcItem("DP_VIAL_STD", CeilDivCalc(100), None) }

CallBlocks ==
    { Block(<<it>>) : it \in LiteralItems \cup CalcItems }
    \cup { Block(<<a, b>>) : a \in SharedSkuItems, b \in SharedSkuItems }
    \cup { Block(<<Item("IP_DP", "DP_VIAL_STD", Num(0)),
                   Item("IP_DP", "DP_VIAL_HIGH", Num(2 * Unit)),
                   Item("IP_DP", "DP_VIAL_STD", Num(Unit))>>) }

\* condition lists of a branch: none, one bound, a range, a malformed threshold
BranchConditions ==
    { <<>>,
      <<Condition("<", Num(300))>>,
      <<Condition(">=", Num(100)), Condition("<", Num(200))>>,
      <<Condition(">=", Num(1000))>>,
      <<Condition("~", Num(300))>>,
      <<Condition("<", None)>> }

Branch(cond, then) == [if |-> cond, then |-> then]

RuleBody(type, conditions, default) ==
    [dispense_rule_id |-> "DR1",
     rule |-> [type |-> type, conditions |-> conditions, default |-> default,
               product_id |-> "", allowed_presentations |-> <<>>]]

ThenFirst == Block(<<Item("IP_DP", "DP_VIAL_STD", Num(Unit))>>)
ThenSecond == Block(<<Item("IP_DP", "DP_VIAL_HIGH", Num(2 * Unit))>>)
DefaultBlock == Block(<<Item("IP_DP", "DILUENT", Num(3 * Unit))>>)

CallRules ==
    { RuleBody("conditional", <<Branch(<<Condition("<", Num(300))>>, b)>>, Block(<<>>)) :
        b \in CallBlocks }
    \cup { RuleBody("conditional", <<Branch(c1, ThenFirst), Branch(c2, ThenSecond)>>, d) :
             c1 \in BranchConditions, c2 \in BranchConditions,
             d \in {Block(<<>>), DefaultBlock} }
    \cup { RuleBody("conditional", <<>>, d) : d \in {Block(<<>>), DefaultBlock} }
    \cup { [RuleBody("vial_optimization", <<>>, Block(<<>>)) EXCEPT
               !.rule.product_id = "IP_DP", !.rule.allowed_presentations = ps] :
             ps \in {<<>>, <<"DP_VIAL_STD">>} }
    \cup { RuleBody("simple", <<>>, DefaultBlock) }

\* doses in ng
CallDoses == { m * NgPerMcg : m \in {-100, 0, 150, 200, 1500} }

DispenseCalls ==
    { [fn |-> "evaluate_dispense", dispense_rule |-> r, dose_mcg |-> d] :
        r \in CallRules, d \in CallDoses }

DoseRow(visit_id, dose_value) ==
    [visit_id |-> visit_id, per_kg_value |-> None, per_kg_uom |-> "",
     dose_value |-> Num(dose_value)]

\* each row carries a dose of its own, so that the chosen row is identified
CallRows ==
    { DoseRow(<<"MAINT_QW">>, 100), DoseRow(<<"MAINT_QW", "5">>, 150),
      DoseRow(<<"MAINT_QW", "5">>, 175), DoseRow(<<"C1D1">>, 200),
      DoseRow(<<"A", "1">>, 300) }

RowLists ==
    { <<>> } \cup { <<a>> : a \in CallRows }
    \cup { <<a, b>> : a \in CallRows, b \in CallRows }

CallVisitIds ==
    { <<"MAINT_QW">>, <<"MAINT_QW", "5">>, <<"MAINT_QW", "6">>, <<"C1D1">>,
      <<"C1D1", "2">>, <<"A", "1", "5">>, <<"SCREEN">> }

FindRowCalls ==
    { [fn |-> "_find_row_for_visit", rows |-> rs, visit_id |-> v] :
        rs \in RowLists, v \in CallVisitIds }

\* visits that do not repeat (no interval, interval 0, negative interval) and
\* visits that repeat weekly, every 3 days, every 10 days from before day 0,
\* and weekly from a day beyond a short study
CallVisits ==
    { Visit("C1D1", Num(0), None),
      Visit("SCREEN", Num(-14), Num(0)),
      Visit("EOT", Num(21), Num(-7)),
      Visit("MAINT_QW", Num(7), Num(7)),
      Visit("Q3D", Num(3), Num(3)),
      Visit("PRE", Num(-3), Num(10)),
      Visit("LATE", Num(40), Num(7)) }

\* one visit or two visits with different ids
CallVisitLists ==
    { <<v>> : v \in CallVisits }
        \cup { vs \in { <<v, w>> : v \in CallVisits, w \in CallVisits } : vs[1] # vs[2] }

\* study lengths given as a number of weekly or monthly buckets, as the
\* default horizon, or as a start date and an end date
CallStudyLengths ==
    { [BasePayload EXCEPT !.horizon_buckets = Num(h), !.forecast_bucket = b] :
        h \in 1 .. MaxHorizon, b \in {"", "month"} }
        \cup { BasePayload }
        \cup { [BasePayload EXCEPT !.start_date = Date(0), !.end_date = Date(d)] :
                    d \in {0, 20, 21} }

ExpandVisitsCalls ==
    { [fn |-> "expand_visits", payload |-> [p EXCEPT !.visits = vs]] :
        p \in CallStudyLengths, vs \in CallVisitLists }

InitCalls ==
    /\ payload = BasePayload
    /\ now = 0
    /\ pc = "idle"
    /\ EnrollIdle
    /\ results = <<>>
    /\ forecast_output = NoForecastOutput
    /\ inventory = <<>>
    /\ PlanIdle
    /\ args \in DispenseCalls \cup FindRowCalls \cup ExpandVisitsCalls
    /\ ret = <<>>
    /\ ThreadIdle
    /\ DbIdle

NextCalls == CallEvaluateDispense \/ CallFindRow \/ CallExpandVisits

SpecCalls == InitCalls /\ [][NextCalls]_vars

----------------------------------------------------------------------------
(* Calls of run_forecast and generate_supply_plan running in threads.      *)
(* The variables of a call are the locals of its Python frame: a thread    *)
(* that does not run keeps them in parked, and a switch exchanges them.    *)
(* The threads share the wall clock only, which stands still here.         *)

Threads == {1, 2, 3}

\* the locals of the running call
CurrentFrame ==
    [payload |-> payload,
     pc |-> pc,
     horizon |-> horizon,
     bucket_dates |-> bucket_dates,
     effective_rate |-> effective_rate,
     stagger_buckets |-> stagger_buckets,
     next_cohort |-> next_cohort,
     current_bucket |-> current_bucket,
     per_cohort |-> per_cohort,
     total |-> total,
     results |-> results,
     forecast_output |-> forecast_output,
     inventory |-> inventory,
     params |-> params,
     product_demand |-> product_demand,
     starting_inv |-> starting_inv,
     sku_index |-> sku_index,
     bucket_index |-> bucket_index,
     on_hand |-> on_hand,
     stockout_detected |-> stockout_detected,
     projected |-> projected,
     projected_inventory |-> projected_inventory,
     reorder_points |-> reorder_points,
     planned_shipments |-> planned_shipments,
     stockout_alerts |-> stockout_alerts,
     safety_stock_summary |-> safety_stock_summary]

StartPc(call) == IF call.fn = "run_forecast" THEN "idle" ELSE "generate_supply_plan"

\* the locals of a call that has not taken a step
StartFrame(call) ==
    [payload |-> call.payload,
     pc |-> StartPc(call),
     horizon |-> 0,
     bucket_dates |-> <<>>,
     effective_rate |-> 0,
     stagger_buckets |-> 0,
     next_cohort |-> 1,
     current_bucket |-> 0,
     per_cohort |-> <<>>,
     total |-> <<>>,
     results |-> <<>>,
     forecast_output |-> call.forecast_output,
     inventory |-> call.inventory,
     params |-> [depot_ss_days |-> 0, site_ss_days |-> 0, overage |-> 0, bucket_step |-> 0],
     product_demand |-> <<>>,
     starting_inv |-> <<>>,
     sku_index |-> 1,
     bucket_index |-> 0,
     on_hand |-> 0,
     stockout_detected |-> FALSE,
     projected |-> <<>>,
     projected_inventory |-> <<>>,
     reorder_points |-> <<>>,
     planned_shipments |-> <<>>,
     stockout_alerts |-> <<>>,
     safety_stock_summary |-> <<>>]

\* a call is under way at this position
MidCall(pc_) == ~(pc_ \in {"idle", "generate_supply_plan", "planned"})

FrameOf(t) == IF t = current_thread THEN CurrentFrame ELSE parked[t]

\* the scheduler takes the processor from the running thread and gives it to t
Switch(t) ==
    /\ t \in DOMAIN parked
    /\ current_thread' = t
    /\ parked' = [u \in (DOMAIN parked \ {t}) \cup {current_thread} |->
                    IF u = current_thread THEN CurrentFrame ELSE parked[u]]
    /\ preempted' = IF MidCall(pc) THEN preempted \cup {current_thread} ELSE preempted
    /\ payload' = parked[t].payload
    /\ pc' = parked[t].pc
    /\ horizon' = parked[t].horizon
    /\ bucket_dates' = parked[t].bucket_dates
    /\ effective_rate' = parked[t].effective_rate
    /\ stagger_buckets' = parked[t].stagger_buckets
    /\ next_cohort' = parked[t].next_cohort
    /\ current_bucket' = parked[t].current_bucket
    /\ per_cohort' = parked[t].per_cohort
    /\ total' = parked[t].total
    /\ results' = parked[t].results
    /\ forecast_output' = parked[t].forecast_output
    /\ inventory' = parked[t].inventory
    /\ params' = parked[t].params
    /\ product_demand' = parked[t].product_demand
    /\ starting_inv' = parked[t].starting_inv
    /\ sku_index' = parked[t].sku_index
    /\ bucket_index' = parked[t].bucket_index
    /\ on_hand' = parked[t].on_hand
    /\ stockout_detected' = parked[t].stockout_detected
    /\ projected' = parked[t].projected
    /\ projected_inventory' = parked[t].projected_inventory
    /\ reorder_points' = parked[t].reorder_points
    /\ planned_shipments' = parked[t].planned_shipments
    /\ stockout_alerts' = parked[t].stockout_alerts
    /\ safety_stock_summary' = parked[t].safety_stock_summary
    /\ UNCHANGED <<args, ret, now, dbVars>>

ForecastCall(payload_) ==
    [fn |-> "run_forecast", payload |-> payload_,
     forecast_output |-> NoForecastOutput, inventory |-> <<>>]

PlanCall(payload_, forecast_output_, inventory_) ==
    [fn |-> "generate_supply_plan", payload |-> payload_,
     forecast_output |-> forecast_output_, inventory |-> inventory_]

\* a rich document of two cohorts with a repeating visit, the same document
\* with a rate that is not a number, and a legacy document
ThreadDocuments ==
    { p \in RichPayloads :
        /\ p.start_date = Date(3)
        /\ p.scenario_horizon_buckets = Num(2)
        /\ p.enrollment_waves[1].enrollment_rate_per_bucket \in {Num(Unit), BadStr}
        /\ Len(p.cohorts) = 2
        /\ Len(p.visits) = 2 /\ p.visits[2].visit_id = <<"MAINT_QW">>
        /\ p.regimens[1].dose_rule.dose_value = Num(200)
        /\ p.dispense_rules[1].rule.conditions[1].if[1].value = Num(300)
        /\ p.dispense_rules[1].rule.conditions[1].then.dispense[1].qty = Num(Unit) }
    \cup
    { p \in LegacyPayloads :
        /\ p.start_date = Date(3)
        /\ p.scenario_horizon_buckets = Num(2)
        /\ p.enrollment_waves # <<>>
        /\ p.enrollment_rate_per_bucket = Num(Unit) }

\* a plan of two SKUs over two weekly buckets with a demand of 1/4 unit a
\* bucket and an overage of 1.5
ThreadPlanCalls ==
    { PlanCall(p, ForecastOutput(p, 2, _bucket_step_days("week"),
                                 [i \in 0 .. 1 |-> Unit \div 4]),
               <<InventoryRecord("DP_VIAL_STD", Num(2 * Unit)),
                 InventoryRecord("DP_VIAL_STD", None)>>) :
        p \in { q \in PlanPayloads :
                  /\ Len(q.dispense_rules[1].rule.default.dispense) = 2
                  /\ q.global_overage_factor = Num(Unit + Unit \div 2) } }

ThreadCalls == { ForecastCall(p) : p \in ThreadDocuments } \cup ThreadPlanCalls

\* threads 1 and 3 make the same call, thread 2 makes any call
InitInterleaved ==
    /\ now = 0
    /\ args \in { a \in [Threads -> ThreadCalls] : a[1] = a[3] }
    /\ ret = <<>>
    /\ current_thread = 1
    /\ parked = [t \in Threads \ {1} |-> StartFrame(args[t])]
    /\ preempted = {}
    /\ payload = args[1].payload
    /\ pc = StartPc(args[1])
    /\ EnrollIdle
    /\ results = <<>>
    /\ forecast_output = args[1].forecast_output
    /\ inventory = args[1].inventory
    /\ PlanIdle
    /\ DbIdle

NextInterleaved ==
    \/ ForecastStart
    \/ EnrollStart
    \/ EnrollCohort
    \/ RunDemandModel
    \/ LegacyForecast
    \/ Propagate
    \/ PlanStart
    \/ PlanSku
    \/ PlanBucket
    \/ PlanReturn
    \/ \E t \in Threads : Switch(t)

SpecInterleaved == InitInterleaved /\ [][NextInterleaved]_vars

----------------------------------------------------------------------------
(* The shipment API: src/app/api/v1/shipments.py and the courier update of *)
(* src/app/api/v1/integrations.py. A handler that raises HTTPException     *)
(* commits nothing. Lots and shipments are named by their row number.      *)

VALID_TRANSITIONS ==
    ("REQUESTED" :> <<"APPROVED", "CANCELLED">>)
        @@ ("APPROVED" :> <<"PICKED", "CANCELLED">>)
        @@ ("PICKED" :> <<"SHIPPED", "CANCELLED">>)
        @@ ("SHIPPED" :> <<"IN_TRANSIT">>)
        @@ ("IN_TRANSIT" :> <<"RECEIVED">>)

Elements(q) == {q[n] : n \in 1 .. Len(q)}

\* _assert_transition does not raise
TransitionAllowed(status, target) ==
    target \in Elements(Get(VALID_TRANSITIONS, status, <<>>))

Lot(node_id, lot_number, qty_on_hand) ==
    [node_id |-> node_id, product_id |-> "IP_DP", presentation_id |-> "DP_VIAL_STD",
     lot_number |-> lot_number, qty_on_hand |-> qty_on_hand]

ShipmentItem(lot_id, qty) ==
    [lot_id |-> lot_id, product_id |-> "IP_DP", presentation_id |-> "DP_VIAL_STD",
     qty |-> qty]

Transaction(lot_id, txn_type, qty, reference_type, reference_id) ==
    [lot_id |-> lot_id, txn_type |-> txn_type, qty |-> qty,
     reference_type |-> reference_type, reference_id |-> reference_id]

SetStatus(s, status) == [shipments EXCEPT ![s].status = status]

\* create_shipment
CreateShipment(items) ==
    /\ Len(shipments) < MaxShipments
    /\ \A n \in 1 .. Len(items) : items[n].lot_id \in DOMAIN lots
    /\ shipments' = Append(shipments,
          [status |-> "REQUESTED", from_node_id |-> "DEPOT", to_node_id |-> "SITE",
           items |-> items])
    /\ UNCHANGED <<serviceVars, lots, txns, scenario_versions, requests>>

\* approve_shipment
ApproveShipment(s) ==
    /\ s \in DOMAIN shipments
    /\ shipments' = IF TransitionAllowed(shipments[s].status, "APPROVED")
                    THEN SetStatus(s, "APPROVED") ELSE shipments
    /\ UNCHANGED <<serviceVars, lots, txns, scenario_versions, requests>>

\* pick_shipment lines 121-145: the loop over the items from item n on
RECURSIVE IssueItems(_, _, _)
IssueItems(lots_, items, n) ==
    IF n > Len(items) THEN [raised |-> FALSE, lots |-> lots_]
    ELSE LET item == items[n] IN
         IF ~(item.lot_id \in DOMAIN lots_) \/ lots_[item.lot_id].qty_on_hand < item.qty
         THEN [raised |-> TRUE, lots |-> lots_]
         ELSE IssueItems([lots_ EXCEPT ![item.lot_id].qty_on_hand = @ - item.qty],
                         items, n + 1)

TransferOut(s) ==
    [n \in 1 .. Len(shipments[s].items) |->
        Transaction(shipments[s].items[n].lot_id, "TRANSFER_OUT",
                    -shipments[s].items[n].qty, "SHIPMENT", s)]

\* pick_shipment
PickShipment(s) ==
    /\ s \in DOMAIN shipments
    /\ LET issued == IssueItems(lots, shipments[s].items, 1) IN
       IF TransitionAllowed(shipments[s].status, "PICKED") /\ ~issued.raised
       THEN /\ lots' = issued.lots
            /\ txns' = txns \o TransferOut(s)
            /\ shipments' = SetStatus(s, "PICKED")
       ELSE UNCHANGED <<shipments, lots, txns>>
    /\ UNCHANGED <<serviceVars, scenario_versions, requests>>

\* ship_shipment
ShipShipment(s) ==
    /\ s \in DOMAIN shipments
    /\ shipments' = IF TransitionAllowed(shipments[s].status, "SHIPPED")
                    THEN SetStatus(s, "SHIPPED") ELSE shipments
    /\ UNCHANGED <<serviceVars, lots, txns, scenario_versions, requests>>

\* lines 180-186: the lots at the destination with the product and lot number
DestinationLots(lots_, shipment, item) ==
    {k \in DOMAIN lots_ :
        /\ lots_[k].node_id = shipment.to_node_id
        /\ lots_[k].product_id = item.product_id
        /\ lots_[k].lot_number = lots_[item.lot_id].lot_number}

\* receive_shipment lines 174-217: the loop over the items from item n on
RECURSIVE ReceiveItems(_, _, _, _, _)
ReceiveItems(lots_, txns_, shipment, s, n) ==
    IF n > Len(shipment.items) THEN [lots |-> lots_, txns |-> txns_]
    ELSE LET item == shipment.items[n] IN
         IF ~(item.lot_id \in DOMAIN lots_)
         THEN ReceiveItems(lots_, txns_, shipment, s, n + 1)
         ELSE LET found == DestinationLots(lots_, shipment, item) IN
              IF found # {}
              THEN LET dest_lot_id == CHOOSE k \in found : TRUE IN
                   ReceiveItems([lots_ EXCEPT ![dest_lot_id].qty_on_hand = @ + item.qty],
                                Append(txns_, Transaction(dest_lot_id, "TRANSFER_IN",
                                                          item.qty, "SHIPMENT", s)),
                                shipment, s, n + 1)
              ELSE ReceiveItems(Append(lots_, [node_id |-> shipment.to_node_id,
                                               product_id |-> item.product_id,
                                               presentation_id |-> item.presentation_id,
                                               lot_number |-> lots_[item.lot_id].lot_number,
                                               qty_on_hand |-> item.qty]),
                                Append(txns_, Transaction(Len(lots_) + 1, "TRANSFER_IN",
                                                          item.qty, "SHIPMENT", s)),
                                shipment, s, n + 1)

\* receive_shipment
ReceiveShipment(s) ==
    /\ s \in DOMAIN shipments
    /\ IF shipments[s].status \in {"SHIPPED", "IN_TRANSIT"}
       THEN LET received == ReceiveItems(lots, txns, shipments[s], s, 1) IN
            /\ lots' = received.lots
            /\ txns' = received.txns
            /\ shipments' = SetStatus(s, "RECEIVED")
       ELSE UNCHANGED <<shipments, lots, txns>>
    /\ UNCHANGED <<serviceVars, scenario_versions, requests>>

\* cancel_shipment
CancelShipment(s) ==
    /\ s \in DOMAIN shipments
    /\ shipments' = IF shipments[s].status \in {"RECEIVED", "CANCELLED"}
                    THEN shipments ELSE SetStatus(s, "CANCELLED")
    /\ UNCHANGED <<serviceVars, lots, txns, scenario_versions, requests>>

\* integrations.py lines 248-254
status_map ==
    ("IN_TRANSIT" :> "IN_TRANSIT") @@ ("PICKED_UP" :> "SHIPPED")
        @@ ("DELIVERED" :> "RECEIVED") @@ ("OUT_FOR_DELIVERY" :> "IN_TRANSIT")

\* update_courier_status
UpdateCourierStatus(s, courier_status) ==
    /\ s \in DOMAIN shipments
    /\ LET new_status == Get(status_map, courier_status, "") IN
       shipments' = IF new_status # "" /\ shipments[s].status # "RECEIVED"
                    THEN SetStatus(s, new_status) ELSE shipments
    /\ UNCHANGED <<serviceVars, lots, txns, scenario_versions, requests>>

\* the depot lot of 3 units
SourceLots == <<Lot("DEPOT", "L1", 3)>>

\* the site has no lot of that number yet, or an empty one
InitialLotTables == {SourceLots, SourceLots \o <<Lot("SITE", "L1", 0)>>}

\* one item within the lot, one beyond it, and two items of the same lot
ShipmentItemLists ==
    { <<ShipmentItem(1, 2)>>, <<ShipmentItem(1, 4)>>,
      <<ShipmentItem(1, 1), ShipmentItem(1, 1)>> }

CourierStatuses == {"IN_TRANSIT", "PICKED_UP", "DELIVERED", "OUT_FOR_DELIVERY", "EXCEPTION"}

\* everything but the tables is idle
ServiceIdle ==
    /\ payload = BasePayload
    /\ now = 0
    /\ pc = "idle"
    /\ EnrollIdle
    /\ results = <<>>
    /\ forecast_output = NoForecastOutput
    /\ inventory = <<>>
    /\ PlanIdle
    /\ args = <<>>
    /\ ret = <<>>
    /\ ThreadIdle

InitShipments ==
    /\ ServiceIdle
    /\ shipments = <<>>
    /\ lots \in InitialLotTables
    /\ txns = <<>>
    /\ scenario_versions = <<>>
    /\ requests = <<>>

NextShipments ==
    \/ \E items \in ShipmentItemLists : CreateShipment(items)
    \/ \E s \in 1 .. MaxShipments :
          \/ ApproveShipment(s)
          \/ PickShipment(s)
          \/ ShipShipment(s)
          \/ ReceiveShipment(s)
          \/ CancelShipment(s)
          \/ \E courier_status \in CourierStatuses : UpdateCourierStatus(s, courier_status)

SpecShipments == InitShipments /\ [][NextShipments]_vars

----------------------------------------------------------------------------
(* Requests that issue stock from a lot, each in its own database session: *)
(* pick_shipment, dispense_kit and create_transaction. A session loads the *)
(* lot row, the handler checks and reduces the loaded qty_on_hand, and the *)
(* commit writes the reduced value to the row.                             *)

\* the handler loads the lot and checks the quantity: it raises 400 or goes on
\* with the loaded qty_on_hand
LoadAndCheck(r, qty) ==
    [requests EXCEPT ![r].pc = IF lots[requests[r].lot_id].qty_on_hand < qty
                                THEN "rejected" ELSE "checked",
                     ![r].qty_on_hand = lots[requests[r].lot_id].qty_on_hand]

\* lot.qty_on_hand -= qty on the loaded row, written at the commit
WriteReduced(r, qty) ==
    [lots EXCEPT ![requests[r].lot_id].qty_on_hand = requests[r].qty_on_hand - qty]

\* pick_shipment lines 118-128 for the shipment of the request
PickLoad(r) ==
    /\ requests[r].handler = "pick_shipment"
    /\ requests[r].pc = "start"
    /\ requests' = IF TransitionAllowed(shipments[r].status, "PICKED")
                   THEN LoadAndCheck(r, shipments[r].items[1].qty)
                   ELSE [requests EXCEPT ![r].pc = "rejected"]
    /\ UNCHANGED <<serviceVars, shipments, lots, txns, scenario_versions>>

\* pick_shipment lines 131-147
PickCommit(r) ==
    /\ requests[r].handler = "pick_shipment"
    /\ requests[r].pc = "checked"
    /\ lots' = WriteReduced(r, shipments[r].items[1].qty)
    /\ txns' = txns \o TransferOut(r)
    /\ shipments' = SetStatus(r, "PICKED")
    /\ requests' = [requests EXCEPT ![r].pc = "committed"]
    /\ UNCHANGED <<serviceVars, scenario_versions>>

\* dispense_kit lines 201-206
DispenseLoad(r) ==
    /\ requests[r].handler = "dispense_kit"
    /\ requests[r].pc = "start"
    /\ requests' = LoadAndCheck(r, requests[r].qty)
    /\ UNCHANGED <<serviceVars, shipments, lots, txns, scenario_versions>>

\* dispense_kit lines 208-230
DispenseCommit(r) ==
    /\ requests[r].handler = "dispense_kit"
    /\ requests[r].pc = "checked"
    /\ lots' = WriteReduced(r, requests[r].qty)
    /\ txns' = Append(txns, Transaction(requests[r].lot_id, "ISSUE", -requests[r].qty,
                                        "DISPENSE", r))
    /\ requests' = [requests EXCEPT ![r].pc = "committed"]
    /\ UNCHANGED <<serviceVars, shipments, scenario_versions>>

\* create_transaction lines 274-285 for txn_type ISSUE or TRANSFER_OUT
TransactionLoad(r) ==
    /\ requests[r].handler = "create_transaction"
    /\ requests[r].pc = "start"
    /\ requests' = LoadAndCheck(r, Abs(requests[r].qty))
    /\ UNCHANGED <<serviceVars, shipments, lots, txns, scenario_versions>>

\* create_transaction lines 286-305
TransactionCommit(r) ==
    /\ requests[r].handler = "create_transaction"
    /\ requests[r].pc = "checked"
    /\ lots' = WriteReduced(r, Abs(requests[r].qty))
    /\ txns' = Append(txns, Transaction(requests[r].lot_id, requests[r].txn_type,
                                        requests[r].qty, "", r))
    /\ requests' = [requests EXCEPT ![r].pc = "committed"]
    /\ UNCHANGED <<serviceVars, shipments, scenario_versions>>

IssueRequest(handler, txn_type, qty) ==
    [handler |-> handler, txn_type |-> txn_type, lot_id |-> 1, qty |-> qty,
     pc |-> "start", qty_on_hand |-> 0]

\* requests for 2 and for 3 units of the depot lot of 3 units; the body of a
\* transaction gives the quantity with either sign
IssueRequests ==
    { IssueRequest("pick_shipment", "TRANSFER_OUT", qty) : qty \in {2, 3} }
    \cup { IssueRequest("dispense_kit", "ISSUE", qty) : qty \in {2, 3} }
    \cup { IssueRequest("create_transaction", "ISSUE", qty) : qty \in {2, -3} }
    \cup { IssueRequest("create_transaction", "TRANSFER_OUT", 3) }

\* the shipment a pick request is for: approved, one item of the depot lot
ApprovedShipment(request) ==
    [status |-> "APPROVED", from_node_id |-> "DEPOT", to_node_id |-> "SITE",
     items |-> <<ShipmentItem(request.lot_id, Abs(request.qty))>>]

InitIssue ==
    /\ ServiceIdle
    /\ requests \in [1 .. MaxRequests -> IssueRequests]
    /\ shipments = [r \in 1 .. MaxRequests |-> ApprovedShipment(requests[r])]
    /\ lots = SourceLots
    /\ txns = <<>>
    /\ scenario_versions = <<>>

NextIssue ==
    \E r \in 1 .. MaxRequests :
        \/ PickLoad(r)
        \/ PickCommit(r)
        \/ DispenseLoad(r)
        \/ DispenseCommit(r)
        \/ TransactionLoad(r)
        \/ TransactionCommit(r)

SpecIssue == InitIssue /\ [][NextIssue]_vars

----------------------------------------------------------------------------
(* Requests that store a ScenarioVersion: create_version and fork_version  *)
(* of src/app/api/v1/scenarios.py, each in its own database session.       *)

VersionsOf(rows, scenario_id) ==
    SelectSeq(rows, LAMBDA row : row.scenario_id = scenario_id)

\* select(func.max(ScenarioVersion.version)): 0 stands for None
MaxVersion(rows, scenario_id) ==
    LET vs == {row.version : row \in Elements(VersionsOf(rows, scenario_id))} IN
    IF vs = {} THEN 0 ELSE CHOOSE v \in vs : \A w \in vs : w <= v

\* an insert that no constraint holds back
UniqueViolationNever(rows, scenario_id, version) == FALSE

\* uq_scenario_versions_scenario_id_version holds the insert back
UniqueViolation(rows, scenario_id, version) ==
    \E n \in 1 .. Len(rows) :
        rows[n].scenario_id = scenario_id /\ rows[n].version = version

\* scenarios.py lines 221-224 and 321-324
ReadMax(r) ==
    [requests EXCEPT ![r].pc = "read",
                     ![r].next_version =
                         MaxVersion(scenario_versions, requests[r].scenario_id) + 1]

\* db.add(sv); db.commit(): the row is stored, or the commit fails on the
\* unique constraint and nothing is stored
InsertVersion(r) ==
    IF UniqueViolation(scenario_versions, requests[r].scenario_id,
                       requests[r].next_version)
    THEN /\ requests' = [requests EXCEPT ![r].pc = "failed"]
         /\ UNCHANGED scenario_versions
    ELSE /\ requests' = [requests EXCEPT ![r].pc = "committed"]
         /\ scenario_versions' = Append(scenario_versions,
               [scenario_id |-> requests[r].scenario_id,
                version |-> requests[r].next_version])

\* create_version lines 205-224
CreateVersionRead(r) ==
    /\ requests[r].handler = "create_version"
    /\ requests[r].pc = "start"
    /\ requests' = ReadMax(r)
    /\ UNCHANGED <<serviceVars, shipments, lots, txns, scenario_versions>>

\* create_version lines 228-240
CreateVersionCommit(r) ==
    /\ requests[r].handler = "create_version"
    /\ requests[r].pc = "read"
    /\ InsertVersion(r)
    /\ UNCHANGED <<serviceVars, shipments, lots, txns>>

\* fork_version lines 305-311: the base version is there, or 404
ForkVersionLoadBase(r) ==
    /\ requests[r].handler = "fork_version"
    /\ requests[r].pc = "start"
    /\ requests' = [requests EXCEPT ![r].pc =
          IF UniqueViolation(scenario_versions, requests[r].scenario_id,
                             requests[r].version)
          THEN "base" ELSE "failed"]
    /\ UNCHANGED <<serviceVars, shipments, lots, txns, scenario_versions>>

\* fork_version lines 313-324
ForkVersionRead(r) ==
    /\ requests[r].handler = "fork_version"
    /\ requests[r].pc = "base"
    /\ requests' = ReadMax(r)
    /\ UNCHANGED <<serviceVars, shipments, lots, txns, scenario_versions>>

\* fork_version lines 328-341
ForkVersionCommit(r) ==
    /\ requests[r].handler = "fork_version"
    /\ requests[r].pc = "read"
    /\ InsertVersion(r)
    /\ UNCHANGED <<serviceVars, shipments, lots, txns>>

VersionRequest(handler, scenario_id, version) ==
    [handler |-> handler, scenario_id |-> scenario_id, version |-> version,
     pc |-> "start", next_version |-> 0]

\* new versions of two scenarios, and forks of version 1 of the first
VersionRequests ==
    { VersionRequest("create_version", scenario_id, 0) : scenario_id \in {"S1", "S2"} }
    \cup { VersionRequest("fork_version", "S1", 1) }

InitVersions ==
    /\ ServiceIdle
    /\ shipments = <<>>
    /\ lots = <<>>
    /\ txns = <<>>
    /\ scenario_versions \in { <<>>, <<[scenario_id |-> "S1", version |-> 1]>> }
    /\ requests \in [1 .. MaxRequests -> VersionRequests]

NextVersions ==
    \E r \in 1 .. MaxRequests :
        \/ CreateVersionRead(r)
        \/ CreateVersionCommit(r)
        \/ ForkVersionLoadBase(r)
        \/ ForkVersionRead(r)
        \/ ForkVersionCommit(r)

SpecVersions == InitVersions /\ [][NextVersions]_vars

----------------------------------------------------------------------------
(* Properties of cohort_enrollment *)

DeclaredCohort(cid) ==
    payload.cohorts[CHOOSE j \in 1 .. Len(payload.cohorts) :
                        payload.cohorts[j].cohort_id = cid]

HasFiniteMax(cohort) == cohort.max_participants.t = "num"

\* C1: for every cohort with a finite max_participants, the sum of its
\* per-bucket enrollment over any prefix of buckets never exceeds the max.
CumulativeWithinMax ==
    \A cid \in DOMAIN per_cohort :
        (cid # "ALL" /\ HasFiniteMax(DeclaredCohort(cid))) =>
            \A i \in DOMAIN per_cohort[cid] :
                PrefixSum(per_cohort[cid], i)
                    <= DeclaredCohort(cid).max_participants.v * Unit

\* a cohort was capped: its last filling bucket took less than the rate and
\* brought the cohort exactly to its max, with buckets of the horizon left
CappedCohortReached ==
    /\ pc = "enrolled"
    /\ \E cid \in DOMAIN per_cohort :
        /\ cid # "ALL"
        /\ HasFiniteMax(DeclaredCohort(cid))
        /\ \E i \in DOMAIN per_cohort[cid] :
            /\ i + 1 < horizon
            /\ per_cohort[cid][i] > 0
            /\ per_cohort[cid][i] < effective_rate
            /\ PrefixSum(per_cohort[cid], i)
                   = DeclaredCohort(cid).max_participants.v * Unit

\* the first bucket at which the cumulative enrollment of a series reaches m
Exhausted(series, m) == {i \in DOMAIN series : PrefixSum(series, i) >= m}

ExhaustBucket(series, m) ==
    CHOOSE i \in Exhausted(series, m) : \A j \in Exhausted(series, m) : i <= j

\* C2: cohorts fill strictly sequentially: the cohort declared after c_k has
\* zero enrollment in every bucket up to and including the bucket in which
\* c_k reached its max, and in the stagger buckets that follow it.
SequentialFill ==
    \A k \in 1 .. Len(payload.cohorts) - 1 :
        LET c == payload.cohorts[k]
            d == payload.cohorts[k + 1] IN
        (/\ c.cohort_id \in DOMAIN per_cohort
         /\ d.cohort_id \in DOMAIN per_cohort
         /\ HasFiniteMax(c) /\ HasFiniteMax(d)
         /\ Exhausted(per_cohort[c.cohort_id], c.max_participants.v * Unit) # {}) =>
            \A j \in DOMAIN per_cohort[d.cohort_id] :
                j <= ExhaustBucket(per_cohort[c.cohort_id], c.max_participants.v * Unit)
                        + stagger_buckets
                    => per_cohort[d.cohort_id][j] = 0

----------------------------------------------------------------------------
(* Properties of run_forecast *)

Returned == {results[n] : n \in 1 .. Len(results)}

Completed == {r \in Returned : r.status = "ok"}

\* C3: in every forecast result cumulative_enrolled[0] = enrolled_per_bucket[0],
\* cumulative_enrolled[i] = cumulative_enrolled[i-1] + enrolled_per_bucket[i]
\* for i >= 1, and cumulative_enrolled never decreases.
CumulativeIsMonotoneRunningSum ==
    \A r \in Completed :
        \A i \in DOMAIN r.cumulative_enrolled :
            IF i = 0
            THEN r.cumulative_enrolled[0] = r.enrolled_per_bucket[0]
            ELSE /\ r.cumulative_enrolled[i]
                        = r.cumulative_enrolled[i - 1] + r.enrolled_per_bucket[i]
                 /\ r.cumulative_enrolled[i] >= r.cumulative_enrolled[i - 1]

\* C4: in every forecast result bucket_dates, enrolled_per_bucket,
\* cumulative_enrolled, every per-cohort enrollment series and every demand
\* series have the same length.
SeriesShareLength ==
    \A r \in Completed :
        LET n == SeriesLen(r.bucket_dates) IN
        /\ SeriesLen(r.enrolled_per_bucket) = n
        /\ SeriesLen(r.cumulative_enrolled) = n
        /\ \A cid \in DOMAIN r.enrollment_by_cohort :
                SeriesLen(r.enrollment_by_cohort[cid]) = n
        /\ \A sku \in DOMAIN r.demand : SeriesLen(r.demand[sku]) = n

\* a rich run returned two cohort series and a demand series
RichSeriesReturned ==
    \E r \in Completed :
        /\ r.path = "rich"
        /\ Cardinality(DOMAIN r.enrollment_by_cohort) = 2
        /\ DOMAIN r.demand # {}
        /\ SeriesLen(r.bucket_dates) > 1

\* C8: two runs of run_forecast on the same document return results that are
\* equal in every field except generated_at, whenever each run happens.
RunsAgreeExceptTimestamp ==
    \A r1, r2 \in Returned :
        [r1 EXCEPT !.generated_at = 0] = [r2 EXCEPT !.generated_at = 0]

\* C10: run_forecast never raises for a malformed scalar: every call completes
\* and returns a result.
EveryRunCompletes ==
    /\ pc # "raised"
    /\ \A r \in Returned : r.status = "ok"

----------------------------------------------------------------------------
(* Properties of generate_supply_plan *)

PlanStarted == pc \in {"skus", "buckets", "summary", "planned"}
PlanDone == pc = "planned"

Skus == {product_demand[n].sku : n \in 1 .. Len(product_demand)}

SeriesOf(sku) ==
    product_demand[CHOOSE n \in 1 .. Len(product_demand) :
                       product_demand[n].sku = sku].series

\* starting inventory minus the cumulative overage-adjusted demand up to bucket i
RunningOnHand(sku, i) == Get(starting_inv, sku, 0) - PrefixSum(SeriesOf(sku), i)

Least(S) == CHOOSE i \in S : \A j \in S : i <= j

NegativeBuckets(sku) == {i \in DOMAIN SeriesOf(sku) : RunningOnHand(sku, i) < 0}

AlertsOf(sku) ==
    {n \in 1 .. Len(stockout_alerts) : stockout_alerts[n].sku = sku}

ShipmentsOf(sku) ==
    {n \in 1 .. Len(planned_shipments) : planned_shipments[n].sku = sku}

\* one alert for the SKU, at its first negative bucket, or none if there is none
AlertAtFirstNegative(sku) ==
    IF NegativeBuckets(sku) = {} THEN AlertsOf(sku) = {}
    ELSE /\ Cardinality(AlertsOf(sku)) = 1
         /\ \A n \in AlertsOf(sku) :
                stockout_alerts[n].stockout_bucket_index = Least(NegativeBuckets(sku))

\* C5 as stated: a SKU whose running on-hand goes negative has exactly one
\* stockout alert, at the first negative bucket, whose deficit (in tenths) is
\* exactly |on_hand| (in eighths) at that bucket; a SKU whose on-hand never
\* goes negative has no alert.
StockoutAlertExactDeficit ==
    PlanDone =>
        \A sku \in Skus :
            /\ AlertAtFirstNegative(sku)
            /\ \A n \in AlertsOf(sku) :
                   stockout_alerts[n].deficit * Unit
                       = 10 * Abs(RunningOnHand(sku, Least(NegativeBuckets(sku))))

\* C5 amended: a SKU whose running on-hand goes negative has exactly one
\* stockout alert, at the first negative bucket, whose deficit is |on_hand| at
\* that bucket rounded to one decimal place (within half a tenth of it, a tie
\* going to the even tenth); a SKU whose on-hand never goes negative has none.
StockoutAlertRoundedDeficit ==
    PlanDone =>
        \A sku \in Skus :
            /\ AlertAtFirstNegative(sku)
            /\ \A n \in AlertsOf(sku) :
                   LET exact == 10 * Abs(RunningOnHand(sku, Least(NegativeBuckets(sku))))
                       tenths == stockout_alerts[n].deficit * Unit
                       off == Abs(tenths - exact) IN
                   \/ 2 * off < Unit
                   \/ 2 * off = Unit /\ stockout_alerts[n].deficit % 2 = 0

\* a finished plan with an alert after the first bucket whose deficit is not
\* the exact shortfall
RoundedDeficitAlerted ==
    /\ PlanDone
    /\ \E n \in 1 .. Len(stockout_alerts) :
          /\ stockout_alerts[n].stockout_bucket_index > 0
          /\ stockout_alerts[n].deficit * Unit
                # 10 * Abs(RunningOnHand(stockout_alerts[n].sku,
                                         stockout_alerts[n].stockout_bucket_index))

\* C6: a finished plan holds at most one planned shipment and at most one
\* stockout alert per SKU.
AtMostOneShipmentAndAlert ==
    PlanDone =>
        \A sku \in Skus :
            /\ Cardinality(ShipmentsOf(sku)) <= 1
            /\ Cardinality(AlertsOf(sku)) <= 1

\* the buckets at which the running on-hand is at or below the reorder point
\* avg * (depot days / step) + 2 * avg, with avg = sum / len
ReorderBuckets(sku) ==
    LET series == SeriesOf(sku)
        len == Max(SeriesLen(series), 1)
        step == Max(params.bucket_step, 1) IN
    {i \in DOMAIN series :
        RunningOnHand(sku, i) * len * step
            <= PrefixSum(series, SeriesLen(series) - 1)
                   * (params.depot_ss_days + 2 * step)}

\* C7: for a SKU whose demand is non-negative in every bucket, a finished plan
\* has a shipment ordered at the first bucket whose running on-hand is at or
\* below the reorder point and none ordered earlier, and no shipment at all
\* if the on-hand stays above the reorder point.
ShipmentAtFirstReorderBucket ==
    PlanDone =>
        \A sku \in Skus :
            (\A i \in DOMAIN SeriesOf(sku) : SeriesOf(sku)[i] >= 0) =>
                IF ReorderBuckets(sku) = {} THEN ShipmentsOf(sku) = {}
                ELSE /\ \E n \in ShipmentsOf(sku) :
                            planned_shipments[n].order_bucket_index
                                = Least(ReorderBuckets(sku))
                     /\ \A n \in ShipmentsOf(sku) :
                            planned_shipments[n].order_bucket_index
                                >= Least(ReorderBuckets(sku))

\* C9: a dispensed item and an inventory record of the same product and
\* presentation (a missing or null presentation included) meet under one key,
\* "product_id:presentation_id" or the bare "product_id": the demand map and
\* the starting-inventory map both hold it.
SkuKeysJoin ==
    PlanStarted =>
        \A r \in 1 .. Len(payload.dispense_rules) :
          LET items == payload.dispense_rules[r].rule.default.dispense IN
          \A n \in 1 .. Len(items), m \in 1 .. Len(inventory) :
            (/\ items[n].product_id = inventory[m].product_id
             /\ items[n].presentation_id = inventory[m].presentation_id) =>
                LET key == IF items[n].presentation_id \in {PresAbsent, PresNone}
                           THEN items[n].product_id
                           ELSE items[n].product_id \o ":" \o items[n].presentation_id IN
                /\ key \in Skus
                /\ key \in DOMAIN starting_inv

----------------------------------------------------------------------------
(* Properties of evaluate_dispense and _find_row_for_visit *)

CallReturned(fn) == args # <<>> /\ args.fn = fn /\ ret # <<>>

\* the quantity an item asks for, before any floor
RawQty(item, dose) ==
    IF ItemUsesCalc(item) THEN _eval_calc(item.calc, dose)
    ELSE IF item.qty.t = "num" THEN item.qty.v
    ELSE Unit

BlockKeys(block) == {DispenseKey(block.dispense[n]) : n \in 1 .. Len(block.dispense)}

\* the items of a block on one SKU, each raised to one unit, added up
FlooredSum(block, key, dose) ==
    SumSeq([n \in 1 .. Len(block.dispense) |->
              IF DispenseKey(block.dispense[n]) = key
              THEN Max(Unit, RawQty(block.dispense[n], dose)) ELSE 0])

BlocksOfRule(dispense_rule) ==
    {dispense_rule.rule.conditions[n].then : n \in 1 .. Len(dispense_rule.rule.conditions)}
        \cup {dispense_rule.rule.default, Block(<<>>)}

\* C11: every quantity evaluate_dispense returns is at least one unit; the
\* mapping of a conditional rule is, for one block of the rule, the sum per SKU
\* of the block's item quantities after each was raised to one unit; the single
\* quantity of a vial_optimization rule is at least one unit.
DispenseFloorAndSum ==
    CallReturned("evaluate_dispense") /\ ~ret.raised =>
        /\ \A key \in DOMAIN ret.qtys : ret.qtys[key] >= Unit
        /\ args.dispense_rule.rule.type = "conditional" =>
              \E block \in BlocksOfRule(args.dispense_rule) :
                  /\ DOMAIN ret.qtys = BlockKeys(block)
                  /\ \A key \in BlockKeys(block) :
                        ret.qtys[key] = FlooredSum(block, key, args.dose_mcg)
        /\ args.dispense_rule.rule.type = "vial_optimization" =>
              /\ Cardinality(DOMAIN ret.qtys) = 1
              /\ \A key \in DOMAIN ret.qtys :
                    ret.qtys[key] >= CeilDiv(args.dose_mcg, NgPerMcg * McgPerVial) * Unit

\* C11 witness: two items of one block, asking for 0 and for -1 of the same SKU,
\* were returned as 2 units; and a vial_optimization call returned its floor
FlooredItemsSummed ==
    /\ CallReturned("evaluate_dispense")
    /\ ~ret.raised
    /\ args.dispense_rule.rule.type = "conditional"
    /\ Len(args.dispense_rule.rule.conditions) = 1
    /\ LET block == args.dispense_rule.rule.conditions[1].then IN
          /\ Len(block.dispense) = 2
          /\ RawQty(block.dispense[1], args.dose_mcg) = 0
          /\ RawQty(block.dispense[2], args.dose_mcg) < 0
          /\ DOMAIN ret.qtys = {DispenseKey(block.dispense[1])}
          /\ ret.qtys[DispenseKey(block.dispense[1])] = 2 * Unit

\* the rows of a dose table whose visit_id is id
RowsFor(rows, id) == {rows[n] : n \in {m \in 1 .. Len(rows) : rows[m].visit_id = id}}

\* the id without its last "_w" segment
BaseId(visit_id) == SubSeq(visit_id, 1, Len(visit_id) - 1)

\* C12: _find_row_for_visit returns a row whose visit_id equals the target
\* whenever there is one; otherwise, for a target with a week suffix, a row of
\* the un-suffixed base id when there is one; otherwise no row.
ExactRowThenBaseRow ==
    CallReturned("_find_row_for_visit") =>
        LET exact == RowsFor(args.rows, args.visit_id)
            base == IF Len(args.visit_id) > 1
                    THEN RowsFor(args.rows, BaseId(args.visit_id)) ELSE {} IN
        IF exact # {} THEN ret \in exact
        ELSE IF base # {} THEN ret \in base
        ELSE ret = NoRow

\* C12 witness: the target MAINT_QW_w5 has no row of its own and was resolved
\* to the row of MAINT_QW
BaseRowResolved ==
    /\ CallReturned("_find_row_for_visit")
    /\ args.visit_id = <<"MAINT_QW", "5">>
    /\ RowsFor(args.rows, args.visit_id) = {}
    /\ ret # NoRow
    /\ ret.visit_id = <<"MAINT_QW">>

\* a field/operator/threshold triple holds for the dose
ConditionHolds(c, dose) ==
    LET actual == IF c.field = "dose_mcg" THEN dose ELSE 0
        threshold == c.value.v * NgPerMcg IN
    /\ c.value.t = "num"
    /\ \/ c.op = "<" /\ actual < threshold
       \/ c.op = "<=" /\ actual <= threshold
       \/ c.op = ">" /\ actual > threshold
       \/ c.op = ">=" /\ actual >= threshold
       \/ c.op = "==" /\ actual = threshold
       \/ c.op = "!=" /\ actual # threshold

BranchMatches(branch, dose) ==
    \A k \in 1 .. Len(branch.if) : ConditionHolds(branch.if[k], dose)

MatchingBranches(rule_body, dose) ==
    {n \in 1 .. Len(rule_body.conditions) : BranchMatches(rule_body.conditions[n], dose)}

\* the block a conditional rule answers with
SelectedBlock(rule_body, dose) ==
    LET S == MatchingBranches(rule_body, dose) IN
    IF S # {} THEN rule_body.conditions[CHOOSE n \in S : \A m \in S : n <= m].then
    ELSE rule_body.default

\* every branch has one or more conditions, as the branches of a conditional rule do
BranchesHaveConditions(rule_body) ==
    \A n \in 1 .. Len(rule_body.conditions) : rule_body.conditions[n].if # <<>>

\* C17: a conditional rule whose branches each have one or more conditions
\* returns the items of the first branch, in declared order, all of whose
\* conditions hold for the dose; if no branch matches, the items of the default
\* block, which is the empty mapping when there is no default.
FirstMatchingBranchElseDefault ==
    /\ CallReturned("evaluate_dispense")
    /\ ~ret.raised
    /\ args.dispense_rule.rule.type = "conditional"
    /\ BranchesHaveConditions(args.dispense_rule.rule)
    => LET block == SelectedBlock(args.dispense_rule.rule, args.dose_mcg) IN
       /\ DOMAIN ret.qtys = BlockKeys(block)
       /\ \A key \in BlockKeys(block) :
             ret.qtys[key] = FlooredSum(block, key, args.dose_mcg)

\* C17 witness: both branches of a rule match the dose and the call returned
\* the items of the first one only
FirstOfTwoMatchesReturned ==
    /\ CallReturned("evaluate_dispense")
    /\ ~ret.raised
    /\ args.dispense_rule.rule.type = "conditional"
    /\ BranchesHaveConditions(args.dispense_rule.rule)
    /\ MatchingBranches(args.dispense_rule.rule, args.dose_mcg) = {1, 2}
    /\ args.dispense_rule.rule.conditions[1].then # args.dispense_rule.rule.conditions[2].then
    /\ DOMAIN ret.qtys = BlockKeys(args.dispense_rule.rule.conditions[1].then)

ThresholdsAreNumbers(rule_body) ==
    \A n \in 1 .. Len(rule_body.conditions) :
        \A k \in 1 .. Len(rule_body.conditions[n].if) :
            rule_body.conditions[n].if[k].value.t = "num"

HasFailingCalc(block) ==
    \E n \in 1 .. Len(block.dispense) :
        ItemUsesCalc(block.dispense[n]) /\ CalcFails(block.dispense[n].calc)

\* the quantity of an item when a failing calc counts as one unit
QtyWithFailureAsOne(item, dose) ==
    IF ItemUsesCalc(item) /\ CalcFails(item.calc) THEN Unit
    ELSE Max(Unit, RawQty(item, dose))

\* C18: when the block a conditional rule answers with holds an item whose calc
\* fails to evaluate (syntax error, unknown name, division by zero),
\* evaluate_dispense returns normally and that item counts as one unit in the
\* quantity of its SKU.
FailingCalcCountsAsOne ==
    /\ args # <<>>
    /\ args.fn = "evaluate_dispense"
    /\ ret # <<>>
    /\ args.dispense_rule.rule.type = "conditional"
    /\ BranchesHaveConditions(args.dispense_rule.rule)
    /\ ThresholdsAreNumbers(args.dispense_rule.rule)
    /\ HasFailingCalc(SelectedBlock(args.dispense_rule.rule, args.dose_mcg))
    /\ ~\E n \in 1 .. Len(SelectedBlock(args.dispense_rule.rule, args.dose_mcg).dispense) :
            ItemRaises(SelectedBlock(args.dispense_rule.rule, args.dose_mcg).dispense[n])
    => LET block == SelectedBlock(args.dispense_rule.rule, args.dose_mcg) IN
       /\ ~ret.raised
       /\ DOMAIN ret.qtys = BlockKeys(block)
       /\ \A key \in BlockKeys(block) :
             ret.qtys[key] =
                 SumSeq([n \in 1 .. Len(block.dispense) |->
                           IF DispenseKey(block.dispense[n]) = key
                           THEN QtyWithFailureAsOne(block.dispense[n], args.dose_mcg)
                           ELSE 0])

\* C18 witness: the only item of the answered block divides by zero and has a
\* literal qty of 3 beside the calc; the call returned 1 for its SKU
DivisionByZeroReturnedOne ==
    /\ CallReturned("evaluate_dispense")
    /\ ~ret.raised
    /\ args.dispense_rule.rule.type = "conditional"
    /\ Len(args.dispense_rule.rule.conditions) = 1
    /\ BranchMatches(args.dispense_rule.rule.conditions[1], args.dose_mcg)
    /\ LET block == args.dispense_rule.rule.conditions[1].then IN
          /\ Len(block.dispense) = 1
          /\ block.dispense[1].calc = CeilDivCalc(0)
          /\ block.dispense[1].qty = Num(3 * Unit)
          /\ ret.qtys[DispenseKey(block.dispense[1])] = Unit

----------------------------------------------------------------------------
(* Properties of run_demand_model *)

RichResults == {n \in 1 .. Len(results) : results[n].status = "ok" /\ results[n].path = "rich"}

\* the visit definition an expanded instance came from
DefinitionOf(inst) ==
    IF inst.source_visit_id = <<>> THEN inst.visit_id ELSE inst.source_visit_id

\* the quantities per event of a cohort at the n-th expanded instance, the rule
\* being the one the regimen names for the visit definition of the instance
QtysBySourceVisit(res, cohort_id, n) ==
    LET inst == res.visit_schedule_expanded[n]
        regimen == RegimenFor(payload, cohort_id)
        disp_rule_id == Get(regimen.visit_dispense, DefinitionOf(inst), "")
        found == {m \in 1 .. Len(payload.dispense_rules) :
                     payload.dispense_rules[m].dispense_rule_id = disp_rule_id}
        dose == calculate_dose_for_visit(regimen, inst.visit_id) IN
    IF disp_rule_id = "" \/ found = {} THEN <<>>
    ELSE evaluate_dispense(payload.dispense_rules[CHOOSE m \in found : \A k \in found : k <= m],
                           IF dose.none THEN 0 ELSE dose.v).qtys

\* subjects of a cohort at the n-th expanded instance in bucket j: those
\* enrolled in bucket j - day_offset // step
SubjectsAt(res, cohort_id, n, j) ==
    LET i == j - FloorDiv(res.visit_schedule_expanded[n].day_offset, EnrollStep(payload)) IN
    IF i \in DOMAIN res.enrollment_by_cohort[cohort_id]
    THEN res.enrollment_by_cohort[cohort_id][i] ELSE 0

VisitEvents(res) ==
    {<<cid, n>> : cid \in DOMAIN res.enrollment_by_cohort,
                  n \in 1 .. Len(res.visit_schedule_expanded)}

SkusBySourceVisit(res) ==
    UNION {DOMAIN QtysBySourceVisit(res, e[1], e[2]) : e \in VisitEvents(res)}

DemandBySourceVisit(res, sku, j) ==
    SumSet(VisitEvents(res),
           [e \in VisitEvents(res) |->
               IF sku \in DOMAIN QtysBySourceVisit(res, e[1], e[2])
               THEN (SubjectsAt(res, e[1], e[2], j)
                        * QtysBySourceVisit(res, e[1], e[2])[sku]) \div Unit
               ELSE 0])

DemandAt(res, sku, j) == IF sku \in DOMAIN res.demand THEN res.demand[sku][j] ELSE 0

\* C13: in every result of the rich path, demand[sku][j] is the sum over the
\* cohorts and the expanded visit instances whose visit has a dispense rule
\* yielding the SKU of (subjects of the cohort at the instance in bucket j) x
\* (quantity per event).
DemandIsSumOverVisitEvents ==
    \A r \in RichResults :
        \A sku \in DOMAIN results[r].demand \cup SkusBySourceVisit(results[r]) :
            \A j \in DOMAIN results[r].enrolled_per_bucket :
                DemandAt(results[r], sku, j) = DemandBySourceVisit(results[r], sku, j)

\* C16: in every result of the rich path, the key under which run_demand_model
\* looks an expanded visit instance up in visit_dispense is the id of the visit
\* definition the instance was expanded from.
DispenseLookupUnderSourceVisit ==
    \A r \in RichResults :
        \A n \in 1 .. Len(results[r].visit_schedule_expanded) :
            LET inst == results[r].visit_schedule_expanded[n] IN
            inst.source_visit_id # <<>> => SourceVid(inst.visit_id) = inst.source_visit_id

----------------------------------------------------------------------------
(* Further properties of cohort_enrollment *)

EnrollDone == pc = "enrolled"

SingleCappedCohort ==
    /\ Len(payload.cohorts) = 1
    /\ payload.cohorts[1].max_participants.t = "num"
    /\ stagger_buckets = 0

CapOf(cohort) == cohort.max_participants.v * Unit

\* C14: a single cohort with finite max M, effective rate r > 0 and no stagger
\* enrolls min(r, M - r*i), never below 0, in bucket i; the total series is the
\* same and the cumulative series is min(M, r*(i+1)).
SingleCohortFillsAtRate ==
    EnrollDone /\ SingleCappedCohort /\ effective_rate > 0 =>
        LET cid == payload.cohorts[1].cohort_id
            M == CapOf(payload.cohorts[1])
            r == effective_rate IN
        /\ DOMAIN per_cohort = {cid}
        /\ \A i \in 0 .. horizon - 1 :
              /\ per_cohort[cid][i] = Max(0, Min(r, M - r * i))
              /\ total[i] = per_cohort[cid][i]
              /\ PrefixSum(total, i) = Min(M, r * (i + 1))

\* C14 witness: max 6 at rate 2 gave [2,2,2,0,0] over five buckets
SixAtRateTwoEnrolled ==
    /\ EnrollDone
    /\ SingleCappedCohort
    /\ CapOf(payload.cohorts[1]) = 6 * Unit
    /\ effective_rate = 2 * Unit
    /\ horizon = 5
    /\ per_cohort["DL1"] = (0 :> 2 * Unit) @@ (1 :> 2 * Unit) @@ (2 :> 2 * Unit)
                              @@ (3 :> 0) @@ (4 :> 0)

----------------------------------------------------------------------------
(* Properties of the dispatch of run_forecast *)

RichShape ==
    /\ payload.products # <<>>
    /\ payload.regimens # <<>> \/ payload.dispense_rules # <<>>

KitKey == (IF payload.trial_code = "" THEN "TRIAL" ELSE payload.trial_code) \o ":KIT"

Unlimited(k) == payload.cohorts[k].max_participants.t = "none"

\* the series of a cohort, all-zero when the cohort got none
EnrollmentOf(k) ==
    IF payload.cohorts[k].cohort_id \in DOMAIN per_cohort
    THEN per_cohort[payload.cohorts[k].cohort_id]
    ELSE ZeroSeries(horizon)

\* the loop over the cohorts reaches a cohort without max_participants
UnlimitedCohortStarts == pc = "cohorts" /\ Unlimited(next_cohort)

\* C19: a cohort without max_participants enrolls the effective rate in every
\* bucket from its start cursor to the end of the horizon and nothing before
\* the cursor, and every cohort declared after a cohort without max that
\* enrolled has zero enrollment in every bucket.
UnlimitedCohortConsumesHorizon ==
    /\ [][UnlimitedCohortStarts =>
            per_cohort'[payload.cohorts[next_cohort].cohort_id] =
                [i \in 0 .. horizon - 1 |->
                    IF i >= current_bucket THEN effective_rate ELSE 0]]_vars
    /\ [](EnrollDone =>
            \A k \in 1 .. Len(payload.cohorts) :
                Unlimited(k) /\ payload.cohorts[k].cohort_id \in DOMAIN per_cohort =>
                    \A m \in k + 1 .. Len(payload.cohorts) :
                        EnrollmentOf(m) = ZeroSeries(horizon))

\* C19 witness: the second of three cohorts has no max; it enrolled nothing in
\* bucket 0 and the rate from its cursor to the last bucket, and the third
\* cohort has no series
UnlimitedCohortMidwayReached ==
    /\ EnrollDone
    /\ Len(payload.cohorts) = 3
    /\ Unlimited(2)
    /\ effective_rate > 0
    /\ horizon >= 3
    /\ "DL2" \in DOMAIN per_cohort
    /\ per_cohort["DL2"][0] = 0
    /\ \A i \in 1 .. horizon - 1 : per_cohort["DL2"][i] = effective_rate
    /\ "DL3" \notin DOMAIN per_cohort

\* the enrollment rate the document gives
DocumentRate == EnrollRateScalar(payload).v

AllSeriesZero ==
    /\ \A cid \in DOMAIN per_cohort : per_cohort[cid] = ZeroSeries(horizon)
    /\ total = ZeroSeries(horizon)

\* C20: when the enrollment rate is zero or negative every per-cohort series and
\* the total series of cohort_enrollment are all-zero; and the loop never
\* enrolls a cohort whose start cursor is at or past the end of the horizon.
NonPositiveRateEnrollsNothing ==
    /\ EnrollDone /\ DocumentRate <= 0 => AllSeriesZero
    /\ pc = "cohorts" => current_bucket < horizon

----------------------------------------------------------------------------
(* Further properties of generate_supply_plan *)

LeadBuckets == Max(1, 21 \div params.bucket_step)

PlanHorizon == SeriesLen(forecast_output.bucket_dates)

\* C22: every planned shipment has delivery_bucket_index = order_bucket_index
\* + L with L = max(1, 21 // bucket_step_days), so delivery is at least one
\* bucket after the order.
DeliveryIsOrderPlusLead ==
    PlanDone =>
        \A n \in 1 .. Len(planned_shipments) :
            /\ planned_shipments[n].delivery_bucket_index
                  = planned_shipments[n].order_bucket_index + LeadBuckets
            /\ planned_shipments[n].delivery_bucket_index
                  > planned_shipments[n].order_bucket_index

\* C22 amended: every planned shipment has delivery_bucket_index =
\* min(order_bucket_index + L, horizon - 1); delivery is at least one bucket
\* after the order except for an order in the last bucket, which is delivered
\* in that same bucket.
DeliveryIsOrderPlusLeadWithinHorizon ==
    PlanDone =>
        \A n \in 1 .. Len(planned_shipments) :
            LET order == planned_shipments[n].order_bucket_index
                delivery == planned_shipments[n].delivery_bucket_index IN
            /\ order \in 0 .. PlanHorizon - 1
            /\ delivery = Min(order + LeadBuckets, PlanHorizon - 1)
            /\ IF order = PlanHorizon - 1 THEN delivery = order ELSE delivery > order

\* C22 witness: one plan holds a shipment delivered a full lead time after
\* its order and a shipment ordered in the last bucket and delivered in it
FullAndCutLeadTimesPlanned ==
    /\ PlanDone
    /\ \E n \in 1 .. Len(planned_shipments) :
          planned_shipments[n].delivery_bucket_index
              = planned_shipments[n].order_bucket_index + LeadBuckets
    /\ \E n \in 1 .. Len(planned_shipments) :
          /\ planned_shipments[n].order_bucket_index = PlanHorizon - 1
          /\ planned_shipments[n].delivery_bucket_index = PlanHorizon - 1

----------------------------------------------------------------------------
(* Properties of expand_visits *)

\* the returned instances of one visit definition, in the order returned
InstancesOf(v) == SelectSeq(ret, LAMBDA e : e.source_visit_id = v.visit_id)

RepeatInterval(v) ==
    IF v.repeat_every_days.t = "num" /\ v.repeat_every_days.v > 0
    THEN v.repeat_every_days.v ELSE 0

\* the number of k >= 1 with day_offset + k * R <= total_days
RepeatsDue(day_offset, R, total_days) == Max(0, FloorDiv(total_days - day_offset, R))

\* C23: a visit that does not repeat yields exactly one instance with the
\* source id; a visit repeating every R > 0 days yields the base instance and
\* then, in increasing offset order, one instance at day_offset + k * R for
\* every k >= 1 with day_offset + k * R <= total study days and none beyond,
\* the k-th with suffix _w((day_offset // 7) + (R // 7) + k); the ids of the
\* instances of one visit are pairwise distinct.
RepeatsCoverStudyDays ==
    CallReturned("expand_visits") =>
        \A n \in 1 .. Len(args.payload.visits) :
            LET v == args.payload.visits[n]
                day_offset == v.day_offset.v
                R == RepeatInterval(v)
                inst == InstancesOf(v) IN
            /\ Len(inst) >= 1
            /\ inst[1].visit_id = v.visit_id
            /\ inst[1].day_offset = day_offset
            /\ IF R = 0 THEN Len(inst) = 1
               ELSE /\ Len(inst) = 1 + RepeatsDue(day_offset, R, TotalDays(args.payload))
                    /\ \A k \in 1 .. Len(inst) - 1 :
                          /\ inst[1 + k].day_offset = day_offset + k * R
                          /\ inst[1 + k].day_offset <= TotalDays(args.payload)
                          /\ inst[1 + k].visit_id
                                = v.visit_id \o <<ToString(FloorDiv(day_offset, 7)
                                                              + FloorDiv(R, 7) + k)>>
                    /\ day_offset + Len(inst) * R > TotalDays(args.payload)
            /\ \A j, k \in 1 .. Len(inst) : j # k => inst[j].visit_id # inst[k].visit_id

\* C23 witness: a visit was expanded into its base instance and at least two
\* repeats, the last one on the last study day
RepeatOnLastStudyDay ==
    /\ CallReturned("expand_visits")
    /\ \E n \in 1 .. Len(args.payload.visits) :
          LET inst == InstancesOf(args.payload.visits[n]) IN
          /\ Len(inst) >= 3
          /\ inst[Len(inst)].day_offset = TotalDays(args.payload)

----------------------------------------------------------------------------
(* Properties of the horizon of a forecast *)

SuppliedHorizon == Or(payload.scenario_horizon_buckets, payload.horizon_buckets)

\* C24: a forecast has 26 buckets when the horizon is missing and otherwise
\* the supplied horizon clamped to [1, 520], on the rich path and on the
\* legacy path: bucket_dates has between 1 and 520 entries.
BucketCountClamped ==
    \A r \in Completed :
        /\ SeriesLen(r.bucket_dates) \in 1 .. 520
        /\ ~Truthy(SuppliedHorizon) => SeriesLen(r.bucket_dates) = 26
        /\ SuppliedHorizon.t = "num" /\ SuppliedHorizon.v # 0
              => SeriesLen(r.bucket_dates) = Max(1, Min(SuppliedHorizon.v, 520))

----------------------------------------------------------------------------
(* Properties of calls running in threads *)

\* the arguments a frame holds
ArgumentsOf(frame) ==
    [payload |-> frame.payload, forecast_output |-> frame.forecast_output,
     inventory |-> frame.inventory]

ArgumentsPassed(t) ==
    [payload |-> args[t].payload, forecast_output |-> args[t].forecast_output,
     inventory |-> args[t].inventory]

\* what generate_supply_plan returned to the thread of a frame
PlanOf(frame) ==
    [projected_inventory |-> frame.projected_inventory,
     planned_shipments |-> frame.planned_shipments,
     stockout_alerts |-> frame.stockout_alerts,
     reorder_points |-> frame.reorder_points,
     safety_stock_summary |-> frame.safety_stock_summary]

----------------------------------------------------------------------------
(* Further properties of cohort_enrollment *)

\* C26: with declared cohorts and a non-negative effective rate the total
\* enrollment of every bucket, summed over the cohorts, is at most the
\* effective rate, because at most one cohort enrolls in a bucket.
TotalWithinRate ==
    (EnrollDone /\ payload.cohorts # <<>> /\ effective_rate >= 0) =>
        /\ \A i \in DOMAIN total : total[i] <= effective_rate
        /\ \A i \in DOMAIN total :
              Cardinality({cid \in DOMAIN per_cohort : per_cohort[cid][i] > 0}) <= 1

----------------------------------------------------------------------------
(* Properties of the shipment API *)

\* the edges of VALID_TRANSITIONS and the edge SHIPPED -> RECEIVED of receive
AllowedEdges ==
    { <<from, to>> \in (DOMAIN VALID_TRANSITIONS) \X {"APPROVED", "PICKED", "SHIPPED",
                                                     "IN_TRANSIT", "RECEIVED", "CANCELLED"} :
        TransitionAllowed(from, to) }
    \cup { <<"SHIPPED", "RECEIVED">> }

\* C27: over any sequence of approve, pick, ship, receive, cancel and
\* courier-update calls every change of a shipment's status is an edge of
\* VALID_TRANSITIONS or SHIPPED -> RECEIVED; RECEIVED and CANCELLED are never
\* left.
StatusChangesAlongAllowedEdges ==
    [][\A s \in DOMAIN shipments :
          shipments'[s].status # shipments[s].status =>
              /\ <<shipments[s].status, shipments'[s].status>> \in AllowedEdges
              /\ ~(shipments[s].status \in {"RECEIVED", "CANCELLED"})]_vars

RECURSIVE TotalOnHand(_)
TotalOnHand(lots_) ==
    IF lots_ = <<>> THEN 0 ELSE Head(lots_).qty_on_hand + TotalOnHand(Tail(lots_))

\* the shipment has a TRANSFER_OUT transaction: its items left the source lots
Deducted(s) ==
    \E n \in 1 .. Len(txns) :
        /\ txns[n].txn_type = "TRANSFER_OUT"
        /\ txns[n].reference_type = "SHIPMENT"
        /\ txns[n].reference_id = s

\* C28: once every shipment is RECEIVED or CANCELLED the total qty_on_hand
\* over the source and destination lots is what it was before the shipments
\* were created, and no shipment is RECEIVED without its items having been
\* deducted from the source lots.
LifecycleConservesInventory ==
    /\ (\A s \in DOMAIN shipments : shipments[s].status \in {"RECEIVED", "CANCELLED"})
          => TotalOnHand(lots) = TotalOnHand(SourceLots)
    /\ \A s \in DOMAIN shipments : shipments[s].status = "RECEIVED" => Deducted(s)

----------------------------------------------------------------------------
(* Properties of concurrent requests *)

RECURSIVE IssuedTotal(_)
IssuedTotal(txns_) ==
    IF txns_ = <<>> THEN 0 ELSE Abs(Head(txns_).qty) + IssuedTotal(Tail(txns_))

\* C29: when requests that issue stock from the same lot run concurrently,
\* each reading qty_on_hand, checking it and writing the reduced value, the
\* lot's qty_on_hand never becomes negative and the total quantity issued
\* never exceeds the quantity that was on hand.
IssueNeverOverdraws ==
    /\ \A k \in DOMAIN lots : lots[k].qty_on_hand >= 0
    /\ IssuedTotal(txns) <= TotalOnHand(SourceLots)

\* C30: the stored versions of each scenario are, in commit order, 1, 2, 3,
\* ...: no two rows of a scenario share a version number and each commit
\* stores the number after the last one, for any interleaving of
\* create_version and fork_version requests.
VersionsCountUpFromOne ==
    \A scenario_id \in {"S1", "S2"} :
        LET stored == VersionsOf(scenario_versions, scenario_id) IN
        \A n \in 1 .. Len(stored) : stored[n].version = n

\* C30 witness: two requests read the same maximum; one stored the next
\* version and the other failed on the unique constraint and stored nothing
RaceLostOnUniqueConstraint ==
    \E r, q \in 1 .. MaxRequests :
        /\ requests[r].pc = "failed" /\ requests[r].next_version > 0
        /\ requests[q].pc = "committed"
        /\ requests[q].scenario_id = requests[r].scenario_id
        /\ requests[q].next_version = requests[r].next_version
        /\ Len(VersionsOf(scenario_versions, requests[r].scenario_id)) >= 2

====
